---- MODULE Spec2Model ----
(***************************************************************************)
(* Model of the chat pipeline of the portfolio "AI clone" backend:         *)
(* backend/app/routes/chatbot.py (chat, chat_with_public_chatbot),         *)
(* backend/app/main.py (chat, is_valid_meeting_request),                   *)
(* backend/app/embeddings.py (query_vector_db, generate_ai_response,       *)
(* add_conversation_to_vector_db) and backend/app/database.py              *)
(* (get_or_create_chatbot, get_or_create_visitor, log_chat_message,        *)
(* get_chat_history, get_profile_data).                                    *)
(*                                                                         *)
(* Text is a sequence of atoms (one-character strings, or a whole canned   *)
(* phrase as one atom); " " is the whitespace atom.                        *)
(***************************************************************************)
EXTENDS Integers, Sequences, FiniteSets, TLC

VARIABLES
    supabase,    \* database.supabase: the client, or None (FALSE) when the connection failed
    chatbots,    \* table chatbots
    visitors,    \* table visitors (the text ids of its rows)
    messages,    \* table messages, in insertion order
    profiles,    \* table profiles, by user_id
    collection,  \* the ChromaDB collection portfolio_data
    llm,         \* what the LLM endpoint does with a completion request
    vecfail,     \* the vector-store call sites that raise
    last         \* the last handler run: its request, environment and outcome

vars == <<supabase, chatbots, visitors, messages, profiles, collection, llm, vecfail, last>>

(***************************************************************************)
(* Bounds                                                                  *)
(***************************************************************************)
MaxMessages == 1

None == "None"

\* python None / {} where a chatbot row, a profile or a visitor key is expected
NoChatbot == [id |-> None, user_id |-> None, is_public |-> TRUE]

EmptyProfile == [user_id |-> None, name |-> None]

NoProfileRow == [name |-> None]

NoUuid == <<>>

Users == {"u1", "u2"}

VisitorIds == {"v1"}

(***************************************************************************)
(* Text helpers (python str semantics on sequences of atoms)               *)
(***************************************************************************)
IsSpace(c) == c \in {" ", "\n", "\t"}

RECURSIVE LStrip(_)
LStrip(s) == IF s = <<>> THEN <<>>
             ELSE IF IsSpace(Head(s)) THEN LStrip(Tail(s)) ELSE s

RECURSIVE RStrip(_)
RStrip(s) == IF s = <<>> THEN <<>>
             ELSE IF IsSpace(s[Len(s)]) THEN RStrip(SubSeq(s, 1, Len(s) - 1)) ELSE s

Strip(s) == RStrip(LStrip(s))

\* a check that only takes the empty message for blank
IsBlankWhenEmpty(s) == s = <<>>

\* python: not s or s.strip() == ""
IsBlank(s) == s = <<>> \/ Strip(s) = <<>>

(***************************************************************************)
(* Canned texts                                                            *)
(***************************************************************************)
ClarificationText == <<"I didn't receive a message. Could you please try again?">>

StaticFallbackText == <<"I'm sorry, I encountered an error processing your request. Please try again.">>

EmptyResponseText == <<"I apologize, but I couldn't formulate a proper response. Could we try a different question?">>

AuthFallbackText(name) == <<"I apologize, but I'm having trouble accessing ", name, "'s knowledge base at the moment. Please try again later.">>

ConnectionFallbackText(name) == <<"I apologize, but I'm having trouble connecting to ", name, "'s knowledge base. Please check your internet connection and try again.">>

HighDemandText(name) == <<"I apologize, but ", name, "'s AI clone is experiencing high demand. Please try again in a few moments.">>

GenericFallbackText(name) == <<"I apologize, but I'm having trouble processing your request as ", name, "'s AI clone. Please try again later.">>

(***************************************************************************)
(* Row store (Supabase).  rf is the set of tables whose calls raise while  *)
(* the current request is served.                                          *)
(***************************************************************************)
RowTables == {"chatbots", "visitors", "messages.select", "messages.insert", "history", "profiles"}

RowFailChoices == {{}, RowTables} \cup {{t} : t \in RowTables \ {"history", "profiles"}}

ChatbotIdOf(u) == IF u = "u1" THEN "cb_u1" ELSE "cb_u2"

UnknownChatbotId == "cb_x"

ExistingChatbots == {[id |-> "cb_u1", user_id |-> "u1", is_public |-> TRUE],
                     [id |-> "cb_u2", user_id |-> "u2", is_public |-> FALSE]}

\* select("*").limit(1) without ORDER BY: any row may come back first
DefaultChoices(tbl) == IF tbl = {} THEN {NoChatbot} ELSE tbl

DEFAULT_PROFILE == [name |-> "John Doe"]

in_memory_profile == DEFAULT_PROFILE

\* get_or_create_chatbot(user_id, chatbot_id): returns [ret, chatbots];
\* dflt is the row the unordered limit(1) select yields (None on an empty table)
get_or_create_chatbot(tbl, rf, user_id, chatbot_id, dflt) ==
    IF ~supabase THEN [ret |-> NoChatbot, chatbots |-> tbl]
    ELSE IF "chatbots" \in rf THEN [ret |-> NoChatbot, chatbots |-> tbl]
    ELSE IF chatbot_id # None /\ \E c \in tbl : c.id = chatbot_id
         THEN [ret |-> CHOOSE c \in tbl : c.id = chatbot_id, chatbots |-> tbl]
    ELSE IF user_id # None
         THEN IF \E c \in tbl : c.user_id = user_id
              THEN [ret |-> CHOOSE c \in tbl : c.user_id = user_id, chatbots |-> tbl]
              ELSE LET row == [id |-> ChatbotIdOf(user_id), user_id |-> user_id, is_public |-> TRUE]
                   IN [ret |-> row, chatbots |-> tbl \cup {row}]
    ELSE [ret |-> dflt, chatbots |-> tbl]

\* get_or_create_visitor(visitor_id): returns [ret, visitors]; a visitor row is
\* identified with its text id, its primary key is VisitorUuid(visitor_id)
VisitorUuid(v) == <<"uuid", v>>

get_or_create_visitor(tbl, rf, visitor_id) ==
    IF ~supabase THEN [ret |-> NoUuid, visitors |-> tbl]
    ELSE IF visitor_id = "" THEN [ret |-> NoUuid, visitors |-> tbl]
    ELSE IF "visitors" \in rf THEN [ret |-> NoUuid, visitors |-> tbl]
    ELSE [ret |-> VisitorUuid(visitor_id), visitors |-> tbl \cup {visitor_id}]

\* get_profile_data(user_id): returns [ret, profiles]; never raises and never
\* returns an empty dict
get_profile_data(tbl, rf, user_id) ==
    IF supabase /\ user_id # None
    THEN IF "profiles" \in rf
         THEN [ret |-> [user_id |-> user_id, name |-> in_memory_profile.name], profiles |-> tbl]
         ELSE IF tbl[user_id] # NoProfileRow
              THEN [ret |-> [user_id |-> user_id, name |-> tbl[user_id].name], profiles |-> tbl]
              ELSE [ret |-> [user_id |-> user_id, name |-> DEFAULT_PROFILE.name],
                    profiles |-> [tbl EXCEPT ![user_id] = DEFAULT_PROFILE]]
    ELSE [ret |-> [user_id |-> None, name |-> in_memory_profile.name], profiles |-> tbl]

(***************************************************************************)
(* Vector store (ChromaDB collection "portfolio_data").  The collection is *)
(* the sequence of its units in storage order; a unit carries its id, its  *)
(* metadata and dist, the distance of its embedding to the query text.     *)
(* vf is the set of call sites whose vector-store call raises.             *)
(***************************************************************************)
MaxDist == 2

Dists == 1 .. MaxDist

\* one unit of the collection
Unit(id, category, subcategory, user_id, visitor_id, dist) ==
    [id |-> id, category |-> category, subcategory |-> subcategory,
     user_id |-> user_id, visitor_id |-> visitor_id, dist |-> dist]

Categories == {"document", "profile", "project", "conversation"}

VecSites == {<<"collection", "">>, <<"count", "">>, <<"add", "">>, <<"query", "general">>}
            \cup {<<"get", c>> : c \in Categories}
            \cup {<<"query", c>> : c \in Categories}

RECURSIVE Reverse(_)
Reverse(s) == IF s = <<>> THEN <<>> ELSE Reverse(Tail(s)) \o <<Head(s)>>

Take(s, n) == SubSeq(s, 1, IF Len(s) < n THEN Len(s) ELSE n)

Min(a, b) == IF a < b THEN a ELSE b

\* insertion of e after every element whose distance is <= e.dist
RECURSIVE InsertByDistance(_, _)
InsertByDistance(e, s) ==
    IF s = <<>> THEN <<e>>
    ELSE IF Head(s).dist <= e.dist THEN <<Head(s)>> \o InsertByDistance(e, Tail(s))
    ELSE <<e>> \o s

\* an unstable variant: e goes before the elements of equal distance
RECURSIVE InsertByDistanceUnstable(_, _)
InsertByDistanceUnstable(e, s) ==
    IF s = <<>> THEN <<e>>
    ELSE IF Head(s).dist < e.dist THEN <<Head(s)>> \o InsertByDistanceUnstable(e, Tail(s))
    ELSE <<e>> \o s

RECURSIVE SortedUnstable(_)
SortedUnstable(s) == IF s = <<>> THEN <<>>
                     ELSE InsertByDistanceUnstable(s[Len(s)], SortedUnstable(SubSeq(s, 1, Len(s) - 1)))

\* python sorted(zip(docs, meta, dist), key=lambda x: x[2]): stable, ascending
RECURSIVE SortedByDistance(_)
SortedByDistance(s) == IF s = <<>> THEN <<>>
                       ELSE InsertByDistance(s[Len(s)], SortedByDistance(SubSeq(s, 1, Len(s) - 1)))

\* a where filter is a set of <<key, value>> conditions joined by $and / $eq
Matches(u, where) == \A kv \in where : u[kv[1]] = kv[2]

\* collection.get(where=..., limit=1)["ids"]
CollectionGet(coll, where) ==
    LET Hit(u) == Matches(u, where) IN Take(SelectSeq(coll, Hit), 1)

\* collection.query(query_texts=[query], n_results=n, where=...): the n nearest
\* matching units, nearest first; the order among units of equal distance is
\* not specified by the store (tie: storage order or its reverse)
CollectionQuery(coll, where, n, tie) ==
    LET Hit(u) == Matches(u, where)
        hits == SelectSeq(coll, Hit)
    IN Take(SortedByDistance(IF tie = "asc" THEN hits ELSE Reverse(hits)), n)

EmptyResults == [documents |-> <<>>, metadatas |-> <<>>, distances |-> <<>>]

Meta(u) == [category |-> u.category, subcategory |-> u.subcategory,
            user_id |-> u.user_id, visitor_id |-> u.visitor_id]

ResultsOf(s) == [documents |-> [i \in 1 .. Len(s) |-> s[i].id],
                 metadatas |-> [i \in 1 .. Len(s) |-> Meta(s[i])],
                 distances |-> [i \in 1 .. Len(s) |-> s[i].dist]]

DocNResults == 8

ConversationNResults == 3

DefaultNResults == 8

\* one owner-scoped category block of query_vector_db (document, profile, project)
ScopedBlock(coll, vf, tie, category, n, user_id) ==
    LET Where == {<<"category", category>>, <<"user_id", user_id>>}
    IN IF user_id = None THEN <<>>
       ELSE IF <<"get", category>> \in vf THEN <<>>
       ELSE IF CollectionGet(coll, Where) = <<>> THEN <<>>
       ELSE IF <<"query", category>> \in vf THEN <<>>
       ELSE CollectionQuery(coll, Where, n, tie)

\* the conversation block: the query runs whatever the existence probe returned
ConversationBlock(coll, vf, tie, visitor_id, include_conversation) ==
    LET Where == {<<"category", "conversation">>, <<"visitor_id", visitor_id>>}
    IN IF visitor_id = None \/ visitor_id = "" \/ ~include_conversation THEN <<>>
       ELSE IF <<"get", "conversation">> \in vf THEN <<>>
       ELSE IF <<"query", "conversation">> \in vf THEN <<>>
       ELSE CollectionQuery(coll, Where, ConversationNResults, tie)

\* the unscoped fallback query, post-filtered by owner
GeneralBlock(coll, vf, tie, n_results, user_id) ==
    LET All == {}
        Mine(u) == user_id = None \/ u.user_id = user_id
    IN IF <<"query", "general">> \in vf THEN <<>>
       ELSE SelectSeq(CollectionQuery(coll, All, Min(n_results, Len(coll)), tie), Mine)

\* the results of the four scoped blocks, in the order they are appended
ScopedMerge(coll, vf, tie, n_results, user_id, visitor_id, include_conversation) ==
    ScopedBlock(coll, vf, tie, "document", DocNResults, user_id)
    \o ScopedBlock(coll, vf, tie, "profile", n_results, user_id)
    \o ScopedBlock(coll, vf, tie, "project", n_results, user_id)
    \o ConversationBlock(coll, vf, tie, visitor_id, include_conversation)

\* the merge list of query_vector_db before the final sort: the general query
\* runs only when the scoped blocks gave nothing
MergeList(coll, vf, tie, n_results, user_id, visitor_id, include_conversation) ==
    LET scoped == ScopedMerge(coll, vf, tie, n_results, user_id, visitor_id, include_conversation)
    IN IF scoped # <<>> THEN scoped
       ELSE GeneralBlock(coll, vf, tie, n_results, user_id)

\* an unstable sort of the merge list
sorted_results_unstable(combined) == SortedUnstable(combined)

\* sorted(zip(combined_docs, combined_meta, combined_dist), key=lambda x: x[2])
sorted_results(combined) == SortedByDistance(combined)

\* the body of query_vector_db inside its outer try: raised = an exception
\* left the body (merge is kept for the observer)
QueryBody(coll, vf, tie, n_results, user_id, visitor_id, include_conversation) ==
    IF <<"collection", "">> \in vf \/ <<"count", "">> \in vf
    THEN [ret |-> EmptyResults, raised |-> TRUE, merge |-> <<>>]
    ELSE IF Len(coll) = 0 THEN [ret |-> EmptyResults, raised |-> FALSE, merge |-> <<>>]
    ELSE LET combined == MergeList(coll, vf, tie, n_results, user_id, visitor_id, include_conversation)
         IN IF combined = <<>>
            \* query_results is bound only under "if combined_docs:", so the
            \* read of query_results raises UnboundLocalError
            THEN [ret |-> EmptyResults, raised |-> TRUE, merge |-> <<>>]
            ELSE [ret |-> ResultsOf(sorted_results(combined)), raised |-> FALSE, merge |-> combined]

\* query_vector_db without its outer exception handler
query_vector_db_unguarded(coll, vf, tie, n_results, user_id, visitor_id, include_conversation) ==
    QueryBody(coll, vf, tie, n_results, user_id, visitor_id, include_conversation)

\* query_vector_db: the outer "except Exception" returns the empty structure
query_vector_db(coll, vf, tie, n_results, user_id, visitor_id, include_conversation) ==
    LET body == QueryBody(coll, vf, tie, n_results, user_id, visitor_id, include_conversation)
    IN IF body.raised THEN [ret |-> EmptyResults, raised |-> FALSE, merge |-> body.merge]
       ELSE body

(***************************************************************************)
(* Indexing (embeddings.add_profile_to_vector_db,                          *)
(* add_projects_to_vector_db, add_document_to_vector_db).  An indexed text *)
(* is a run of characters [src, lo, hi]: the characters lo+1 .. hi of the  *)
(* source text src.                                                        *)
(***************************************************************************)
Run(src, lo, hi) == [src |-> src, lo |-> lo, hi |-> hi]

NoText == Run("", 0, 0)

TextLen(t) == t.hi - t.lo

\* t[a:b] for 0 <= a <= b
Slice(t, a, b) == Run(t.src, t.lo + Min(a, TextLen(t)), t.lo + Min(b, TextLen(t)))

chunk_size == 1000

overlap == 100

\* a chunking that restarts every chunk_size characters, without overlap
ChunksWithoutOverlap(text) ==
    [k \in 1 .. ((TextLen(text) + chunk_size - 1) \div chunk_size) |->
        Slice(text, (k - 1) * chunk_size, (k - 1) * chunk_size + chunk_size)]

\* for i in range(0, len(text), chunk_size - overlap): text[i:i + chunk_size]
Chunks(text) ==
    [k \in 1 .. ((TextLen(text) + (chunk_size - overlap) - 1) \div (chunk_size - overlap)) |->
        Slice(text, (k - 1) * (chunk_size - overlap), (k - 1) * (chunk_size - overlap) + chunk_size)]

\* one indexed unit: its id, its document and its metadata; source_id is the
\* project_id or document_id
IndexedUnit(id, category, subcategory, user_id, text, source_id) ==
    [id |-> id, category |-> category, subcategory |-> subcategory, user_id |-> user_id,
     visitor_id |-> None, dist |-> 1, text |-> text, source_id |-> source_id,
     chunked |-> FALSE, chunk_index |-> 0, total_chunks |-> 0]

\* the content units of a project or a document: one unit per chunk for a
\* text longer than chunk_size, one unit otherwise
ContentUnits(prefix, category, source_id, user_id, text) ==
    IF TextLen(text) > chunk_size
    THEN LET chunks == Chunks(text)
         IN [k \in 1 .. Len(chunks) |->
                [IndexedUnit(<<prefix, source_id, k - 1, user_id>>, category, "content", user_id,
                             chunks[k], source_id)
                    EXCEPT !.chunked = TRUE, !.chunk_index = k - 1, !.total_chunks = Len(chunks)]]
    ELSE <<IndexedUnit(<<prefix, source_id, user_id>>, category, "content", user_id, text, source_id)>>

\* the calls of the vector store an indexing function makes
IndexSites == {<<"collection", "">>, <<"delete", "">>, <<"add", "">>}

\* collection.delete(where=...)
CollectionDelete(coll, where) ==
    LET Kept(u) == ~Matches(u, where) IN SelectSeq(coll, Kept)

\* an add that appends the batch whatever ids the collection holds
CollectionAddAppending(coll, vf, dup, units) ==
    IF <<"add", "">> \in vf THEN [raised |-> TRUE, collection |-> coll]
    ELSE [raised |-> FALSE, collection |-> coll \o units]

\* collection.add(documents, metadatas, ids): [raised, collection].  A batch
\* that repeats an id is rejected; for an id the collection already holds the
\* store either rejects the batch (dup = "raise") or leaves the stored unit in
\* place and adds the others (dup = "skip")
CollectionAdd(coll, vf, dup, units) ==
    LET Stored(id) == \E i \in 1 .. Len(coll) : coll[i].id = id
        Fresh(u) == ~Stored(u.id)
    IN IF <<"add", "">> \in vf THEN [raised |-> TRUE, collection |-> coll]
       ELSE IF \E i, j \in 1 .. Len(units) : i # j /\ units[i].id = units[j].id
       THEN [raised |-> TRUE, collection |-> coll]
       ELSE IF dup = "raise" /\ \E i \in 1 .. Len(units) : Stored(units[i].id)
       THEN [raised |-> TRUE, collection |-> coll]
       ELSE [raised |-> FALSE, collection |-> coll \o SelectSeq(units, Fresh)]

\* the units of one project, lines 195-302 (content that is not Lexical JSON)
ProjectUnits(project, user_id) ==
    IF project.id = None THEN <<>>
    ELSE (IF TextLen(project.title) > 0
          THEN <<IndexedUnit(<<"project_title", project.id, user_id>>, "project", "title",
                             user_id, project.title, project.id)>>
          ELSE <<>>)
      \o (IF TextLen(project.description) > 0
          THEN <<IndexedUnit(<<"project_description", project.id, user_id>>, "project",
                             "description", user_id, project.description, project.id)>>
          ELSE <<>>)
      \o (IF TextLen(project.content) > 0
          THEN ContentUnits("project_content", "project", project.id, user_id, project.content)
          ELSE <<>>)

RECURSIVE ProjectListUnits(_, _)
ProjectListUnits(projects_list, user_id) ==
    IF projects_list = <<>> THEN <<>>
    ELSE ProjectUnits(Head(projects_list), user_id) \o ProjectListUnits(Tail(projects_list), user_id)

\* add_projects_to_vector_db(projects_list, user_id): [ret, collection]
add_projects_to_vector_db(coll, vf, dup, projects_list, user_id) ==
    IF projects_list = <<>> THEN [ret |-> TRUE, collection |-> coll]
    ELSE IF <<"collection", "">> \in vf THEN [ret |-> FALSE, collection |-> coll]
    ELSE LET cleared == IF <<"delete", "">> \in vf THEN coll
                        ELSE CollectionDelete(coll, {<<"category", "project">>, <<"user_id", user_id>>})
             units == ProjectListUnits(projects_list, user_id)
             added == IF units = <<>> THEN [raised |-> FALSE, collection |-> cleared]
                      ELSE CollectionAdd(cleared, vf, dup, units)
         IN [ret |-> ~added.raised, collection |-> added.collection]

\* the profile fields indexed as units, in the order of lines 100-140
IndexedProfileFields == <<"name", "location", "bio", "skills", "experience", "projects", "interests">>

RECURSIVE ProfileUnits(_, _, _)
ProfileUnits(profile_data, user_id, i) ==
    IF i > Len(IndexedProfileFields) THEN <<>>
    ELSE LET f == IndexedProfileFields[i]
         IN (IF f \in DOMAIN profile_data /\ TextLen(profile_data[f]) > 0
             THEN <<IndexedUnit(<<f, user_id>>, "profile", f, user_id, profile_data[f], None)>>
             ELSE <<>>) \o ProfileUnits(profile_data, user_id, i + 1)

\* add_profile_to_vector_db(profile_data, user_id): [ret, collection]
add_profile_to_vector_db(coll, vf, dup, profile_data, user_id) ==
    IF <<"collection", "">> \in vf THEN [ret |-> FALSE, collection |-> coll]
    ELSE LET effective_user_id == IF user_id # None THEN user_id
                                  ELSE IF profile_data.user_id # None THEN profile_data.user_id
                                  ELSE "default"
             cleared == IF <<"delete", "">> \in vf THEN coll
                        ELSE CollectionDelete(coll, {<<"category", "profile">>,
                                                     <<"user_id", effective_user_id>>})
             units == ProfileUnits(profile_data, effective_user_id, 1)
             added == IF units = <<>> THEN [raised |-> FALSE, collection |-> cleared]
                      ELSE CollectionAdd(cleared, vf, dup, units)
         IN IF added.raised THEN [ret |-> FALSE, collection |-> added.collection]
            ELSE [ret |-> TRUE,
                  collection |-> add_projects_to_vector_db(added.collection, vf, dup,
                                                           profile_data.project_list,
                                                           effective_user_id).collection]

\* add_document_to_vector_db(document_data, user_id): [ret, collection], for a
\* document that carries an id
add_document_to_vector_db(coll, vf, dup, document_data, user_id) ==
    IF <<"collection", "">> \in vf THEN [ret |-> FALSE, collection |-> coll]
    ELSE IF TextLen(document_data.extracted_text) = 0 THEN [ret |-> FALSE, collection |-> coll]
    ELSE LET document_id == document_data.id
             units == <<IndexedUnit(<<"document_title", document_id, user_id>>, "document", "title",
                                    user_id, document_data.title, document_id)>>
                      \o (IF TextLen(document_data.description) > 0
                          THEN <<IndexedUnit(<<"document_description", document_id, user_id>>,
                                             "document", "description", user_id,
                                             document_data.description, document_id)>>
                          ELSE <<>>)
                      \o ContentUnits("document_content", "document", document_id, user_id,
                                      document_data.extracted_text)
             added == CollectionAdd(coll, vf, dup, units)
         IN [ret |-> ~added.raised, collection |-> added.collection]

(***************************************************************************)
(* Response generation (embeddings.generate_ai_response).  A prompt is the *)
(* sequence of its lines.                                                  *)
(***************************************************************************)
\* async def generate_ai_response(message, search_results, profile_data,
\*                                chat_history, target_user_id=None)
GenerateParams == {"message", "search_results", "profile_data", "chat_history", "target_user_id"}

GenerateRequired == {"message", "search_results", "profile_data", "chat_history"}

\* Calling the coroutine function without await: binding the keyword arguments
\* raises TypeError on an unknown or a missing one; otherwise the call returns
\* a coroutine object and the body does not run.
CallGenerate(kwargs) ==
    IF kwargs \subseteq GenerateParams /\ GenerateRequired \subseteq kwargs
    THEN "coroutine" ELSE "TypeError"

\* format_conversation_history
RECURSIVE FormatLines(_)
FormatLines(chat_history) ==
    IF chat_history = <<>> THEN <<>>
    ELSE LET msg == Head(chat_history)
         IN <<IF msg.sender = "user" THEN <<"User: ", msg.message>>
              ELSE <<"Assistant: ", msg.response>>>> \o FormatLines(Tail(chat_history))

format_conversation_history(chat_history) ==
    IF chat_history = <<>> THEN <<<<"No previous conversation">>>>
    ELSE FormatLines(chat_history)

\* the context entry of result i
ContextEntry(doc, meta) ==
    IF meta.category = "document"
    THEN IF meta.subcategory = "title" THEN <<"Document Title: ", doc>>
         ELSE IF meta.subcategory = "description" THEN <<"Document Description: ", doc>>
         ELSE IF meta.subcategory = "content" THEN <<"Content: ", doc>>
         ELSE <<meta.subcategory, ": ", doc>>
    ELSE <<meta.subcategory, ": ", doc>>

\* the section an entry is appended to: unknown categories go to "profile"
SectionOf(meta) == IF meta.category \in Categories THEN meta.category ELSE "profile"

\* context_sections[section] after the loop over the search results
RECURSIVE SectionEntries(_, _, _)
SectionEntries(search_results, section, i) ==
    IF i > Len(search_results.documents) THEN <<>>
    ELSE (IF SectionOf(search_results.metadatas[i]) = section
          THEN <<ContextEntry(search_results.documents[i], search_results.metadatas[i])>>
          ELSE <<>>) \o SectionEntries(search_results, section, i + 1)

MaxDocumentEntries == 5

MaxProjectEntries == 3

MaxProfileEntries == 3

MaxConversationEntries == 2

max_entries(section) ==
    CASE section = "document" -> MaxDocumentEntries
      [] section = "project" -> MaxProjectEntries
      [] section = "profile" -> MaxProfileEntries
      [] section = "conversation" -> MaxConversationEntries

\* a cap that keeps the last entries of a section instead of the first
LimitEntriesFromEnd(entries, section) ==
    IF Len(entries) > max_entries(section)
    THEN SubSeq(entries, Len(entries) - max_entries(section) + 1, Len(entries))
    ELSE entries

\* entries[:max_entries[section]]
LimitEntries(entries, section) ==
    IF Len(entries) > max_entries(section) THEN SubSeq(entries, 1, max_entries(section))
    ELSE entries

Bullets(entries) == [i \in 1 .. Len(entries) |-> <<"- ">> \o entries[i]]

SectionText(title, entries) == IF entries = <<>> THEN <<>> ELSE <<<<title>>>> \o Bullets(entries)

\* context_text: Knowledge Base, Project, Previous Conversations, Additional Profile
ContextText(search_results) ==
    SectionText("Knowledge Base Information:",
                LimitEntries(SectionEntries(search_results, "document", 1), "document"))
    \o SectionText("Project Information:",
                   LimitEntries(SectionEntries(search_results, "project", 1), "project"))
    \o SectionText("Relevant Previous Conversations:",
                   LimitEntries(SectionEntries(search_results, "conversation", 1), "conversation"))
    \o SectionText("Additional Profile Information:",
                   LimitEntries(SectionEntries(search_results, "profile", 1), "profile"))

\* has_document_content after the loop over the search results
has_document_content(search_results) ==
    \E i \in 1 .. Len(search_results.documents) : search_results.metadatas[i].category = "document"

\* doc_instructions: the item 7 the prompt ends its instructions with
doc_instructions(search_results) ==
    IF has_document_content(search_results)
    THEN <<"7. use the information from my Knowledge Base">>
    ELSE <<"7. answer based only on the information provided in your profile">>

\* system_prompt, a sequence of lines; every line is a sequence of pieces
SystemPrompt(search_results, profile_data, chat_history) ==
    <<<<"Profile Information:">>, <<"- Name: ", profile_data.name>>>>
    \o ContextText(search_results)
    \o <<<<"Important Instructions:">>, doc_instructions(search_results)>>
    \o <<<<"Recent conversation history:">>>>
    \o format_conversation_history(chat_history)

\* openai (v1.x) exception classes: RateLimitError < APIStatusError < APIError,
\* APIConnectionError < APIError
ExceptionBases(cls) ==
    CASE cls = "RateLimitError" -> {"RateLimitError", "APIStatusError", "APIError", "Exception"}
      [] cls = "AuthenticationError" -> {"AuthenticationError", "APIStatusError", "APIError", "Exception"}
      [] cls = "APIConnectionError" -> {"APIConnectionError", "APIError", "Exception"}
      [] cls = "APIError" -> {"APIError", "Exception"}
      [] OTHER -> {"Exception"}

LlmErrors == {"AuthenticationError", "APIConnectionError", "RateLimitError", "ValueError"}

\* the except chain around openai.chat.completions.create: the first clause
\* whose class the raised exception is an instance of handles it
HandleLlmError(cls, name) ==
    IF "APIError" \in ExceptionBases(cls) THEN AuthFallbackText(name)
    ELSE IF "APIConnectionError" \in ExceptionBases(cls) THEN ConnectionFallbackText(name)
    ELSE IF "RateLimitError" \in ExceptionBases(cls) THEN HighDemandText(name)
    ELSE GenericFallbackText(name)

\* the body of generate_ai_response, run when the coroutine is awaited;
\* answer = [ok |-> TRUE, text |-> completion] or [ok |-> FALSE, error |-> class]
GenerateBody(search_results, profile_data, chat_history, answer) ==
    LET prompt == SystemPrompt(search_results, profile_data, chat_history)
    IN [prompt |-> prompt,
        text |-> IF answer.ok THEN answer.text ELSE HandleLlmError(answer.error, profile_data.name)]

(***************************************************************************)
(* Persistence of an exchange (database.log_chat_message,                  *)
(* database.get_chat_history) and its indexing                             *)
(* (embeddings.add_conversation_to_vector_db)                              *)
(***************************************************************************)
LastCreatedAt(msgs) == IF msgs = <<>> THEN 0 ELSE msgs[Len(msgs)].created_at

\* time.strftime has one-second resolution: a new row carries the second of
\* the newest row or a later one
CreatedAtChoices(msgs) == IF msgs = <<>> THEN {1} ELSE {LastCreatedAt(msgs), LastCreatedAt(msgs) + 1}

\* a logging that stores the visitor's message and the response as two rows
log_chat_message_split(db, rf, message, response, visitor_id, target_user_id, chatbot_id, dflt, ts) ==
    IF ~supabase THEN [ret |-> None, db |-> db, issued |-> <<>>]
    ELSE
    LET v == IF visitor_id # "" THEN get_or_create_visitor(db.visitors, rf, visitor_id)
             ELSE [ret |-> NoUuid, visitors |-> db.visitors]
        c == IF target_user_id # None /\ chatbot_id = None
             THEN get_or_create_chatbot(db.chatbots, rf, target_user_id, None, dflt)
             ELSE [ret |-> NoChatbot, chatbots |-> db.chatbots]
        cid1 == IF chatbot_id = None THEN c.ret.id ELSE chatbot_id
        db1 == [db EXCEPT !.visitors = v.visitors, !.chatbots = c.chatbots]
        \* the schema probe messages.select("visitor_id_text").limit(1)
        has_visitor_id_text == visitor_id # "" /\ db.messages # <<>>
        cid2 == IF cid1 # None THEN cid1
                ELSE IF "chatbots" \in rf THEN None ELSE dflt.id
        row == [id |-> Len(db.messages) + 1, message |-> message, sender |-> "user",
                response |-> response, created_at |-> ts,
                visitor_id |-> v.ret,
                visitor_id_text |-> IF has_visitor_id_text THEN visitor_id ELSE None,
                target_user_id |-> target_user_id, chatbot_id |-> cid2]
    IN IF visitor_id # "" /\ "messages.select" \in rf THEN [ret |-> None, db |-> db1, issued |-> <<>>]
       ELSE IF message = <<>> THEN [ret |-> None, db |-> db1, issued |-> <<>>]
       ELSE IF cid2 = None THEN [ret |-> "dummy", db |-> db1, issued |-> <<>>]
       ELSE IF "messages.insert" \in rf THEN [ret |-> None, db |-> db1, issued |-> <<row>>]
       ELSE [ret |-> "row", db |-> [db1 EXCEPT !.messages = db.messages \o <<[row EXCEPT !.response = <<>>],
                                         [row EXCEPT !.id = @ + 1, !.sender = "bot"]>>],
             issued |-> <<row>>]

\* log_chat_message: db = [chatbots, visitors, messages, profiles];
\* ret is "row" (the inserted row is returned), "dummy" (the system record
\* returned without an insert when no chatbot id is known) or None; issued
\* lists the rows handed to messages.insert
log_chat_message(db, rf, message, response, visitor_id, target_user_id, chatbot_id, dflt, ts) ==
    IF ~supabase THEN [ret |-> None, db |-> db, issued |-> <<>>]
    ELSE
    LET v == IF visitor_id # "" THEN get_or_create_visitor(db.visitors, rf, visitor_id)
             ELSE [ret |-> NoUuid, visitors |-> db.visitors]
        c == IF target_user_id # None /\ chatbot_id = None
             THEN get_or_create_chatbot(db.chatbots, rf, target_user_id, None, dflt)
             ELSE [ret |-> NoChatbot, chatbots |-> db.chatbots]
        cid1 == IF chatbot_id = None THEN c.ret.id ELSE chatbot_id
        db1 == [db EXCEPT !.visitors = v.visitors, !.chatbots = c.chatbots]
        \* the schema probe messages.select("visitor_id_text").limit(1)
        has_visitor_id_text == visitor_id # "" /\ db.messages # <<>>
        cid2 == IF cid1 # None THEN cid1
                ELSE IF "chatbots" \in rf THEN None ELSE dflt.id
        row == [id |-> Len(db.messages) + 1, message |-> message, sender |-> "user",
                response |-> response, created_at |-> ts,
                visitor_id |-> v.ret,
                visitor_id_text |-> IF has_visitor_id_text THEN visitor_id ELSE None,
                target_user_id |-> target_user_id, chatbot_id |-> cid2]
    IN IF visitor_id # "" /\ "messages.select" \in rf THEN [ret |-> None, db |-> db1, issued |-> <<>>]
       ELSE IF message = <<>> THEN [ret |-> None, db |-> db1, issued |-> <<>>]
       ELSE IF cid2 = None THEN [ret |-> "dummy", db |-> db1, issued |-> <<>>]
       ELSE IF "messages.insert" \in rf THEN [ret |-> None, db |-> db1, issued |-> <<row>>]
       ELSE [ret |-> "row", db |-> [db1 EXCEPT !.messages = Append(db.messages, row)], issued |-> <<row>>]

history_limit == 10

\* newest first; rows of the same second in reverse storage order
RECURSIVE NewestFirst(_)
NewestFirst(rows) ==
    IF rows = <<>> THEN <<>>
    ELSE LET newest == CHOOSE i \in 1 .. Len(rows) :
                          \A j \in 1 .. Len(rows) :
                              \/ rows[j].created_at < rows[i].created_at
                              \/ (rows[j].created_at = rows[i].created_at /\ j <= i)
         IN <<rows[newest]>> \o NewestFirst(SubSeq(rows, 1, newest - 1) \o SubSeq(rows, newest + 1, Len(rows)))

\* get_chat_history(limit, visitor_id, chatbot_id): never raises
get_chat_history(db, rf, limit, visitor_id, chatbot_id) ==
    IF ~supabase \/ "history" \in rf THEN <<>>
    ELSE IF visitor_id # "" /\ "visitors" \in rf THEN <<>>
    ELSE LET Hit(m) == /\ chatbot_id # None => m.chatbot_id = chatbot_id
                       /\ visitor_id # "" =>
                            IF visitor_id \in db.visitors THEN m.visitor_id = VisitorUuid(visitor_id)
                            ELSE m.visitor_id_text = visitor_id
         IN Take(NewestFirst(SelectSeq(db.messages, Hit)), limit)

RECURSIVE InsertByCreatedAt(_, _)
InsertByCreatedAt(e, s) ==
    IF s = <<>> THEN <<e>>
    ELSE IF Head(s).created_at <= e.created_at THEN <<Head(s)>> \o InsertByCreatedAt(e, Tail(s))
    ELSE <<e>> \o s

\* sorted(chat_history, key=created_at, reverse=False): stable, oldest first
RECURSIVE SortedByCreatedAt(_)
SortedByCreatedAt(s) == IF s = <<>> THEN <<>>
                        ELSE InsertByCreatedAt(s[Len(s)], SortedByCreatedAt(SubSeq(s, 1, Len(s) - 1)))

\* chat_history handed on as the store returned it
chat_history_as_fetched(chat_history) == chat_history

\* chat, lines 98-108: sorted(...) if chat_history else []
sorted_chat_history(chat_history) == SortedByCreatedAt(chat_history)

\* add_conversation_to_vector_db: [ret, collection]; never raises
add_conversation_to_vector_db(coll, vf, visitor_id, message_id, user_id, dist) ==
    IF <<"collection", "">> \in vf \/ <<"add", "">> \in vf THEN [ret |-> FALSE, collection |-> coll]
    ELSE [ret |-> TRUE,
          collection |-> Append(coll, Unit(<<"conversation", message_id>>, "conversation", "exchange",
                                           user_id, visitor_id, dist))]

(***************************************************************************)
(* The chat handlers (routes/chatbot.py)                                   *)
(***************************************************************************)
\* models.ChatRequest
ChatRequestFields == {"message", "visitor_id", "visitor_name", "chatbot_id"}

\* the keyword arguments the handlers pass to generate_ai_response
ChatGenerateKwargs == {"query", "search_results", "profile_data", "chat_history"}

\* ai_response when it is bound to a coroutine object that was never awaited
Coroutine == <<"<coroutine object generate_ai_response>">>

Db == [chatbots |-> chatbots, visitors |-> visitors, messages |-> messages, profiles |-> profiles]

\* the outcome of one handler run
\* genCalls counts the calls of generate_ai_response, genRaised those that
\* raised, llmCalls the completion requests sent to the LLM
Outcome(status, response, db, coll, owner, genCalls, genRaised, retryArgs, retrievals, persistCalls, issued, indexCalls) ==
    [status |-> status, response |-> response, db |-> db, collection |-> coll, owner |-> owner,
     genCalls |-> genCalls, genRaised |-> genRaised, retryArgs |-> retryArgs, llmCalls |-> 0,
     retrievals |-> retrievals,
     persistCalls |-> persistCalls, issued |-> issued, indexCalls |-> indexCalls,
     \* fetched: what get_chat_history returned; history: the chat_history
     \* argument of the main-path generation call
     fetched |-> <<>>, history |-> <<>>]

\* the recovery without the second generation attempt
RecoveryGenerateNoRetry(profile_data) ==
    [calls |-> 0, raised |-> 0, args |-> <<>>, response |-> StaticFallbackText]

\* chat, lines 183-196: the second generation attempt of the recovery path;
\* profile_data is EmptyProfile for the empty dict
RecoveryGenerate(profile_data) ==
    IF profile_data = EmptyProfile
    THEN [calls |-> 0, raised |-> 0, args |-> <<>>, response |-> StaticFallbackText]
    ELSE LET args == <<[search_results |-> EmptyResults, profile_data |-> profile_data,
                        chat_history |-> <<>>]>>
         IN IF CallGenerate(ChatGenerateKwargs) = "coroutine"
            THEN [calls |-> 1, raised |-> 0, args |-> args, response |-> Coroutine]
            ELSE [calls |-> 1, raised |-> 1, args |-> args, response |-> StaticFallbackText]

\* a recovery that returns without logging the exchange
ChatRecoveryNoPersist(db, rf, req, owner, chatbot, dflt, ts, genCalls, retrievals) ==
    LET g == RecoveryGenerate(IF owner # None THEN get_profile_data(db.profiles, rf, owner).ret ELSE EmptyProfile)
    IN Outcome(200, g.response, db, collection, owner, genCalls + g.calls, genCalls + g.raised,
               g.args, retrievals, 0, <<>>, 0)

\* chat, lines 166-226: the "except Exception" recovery path; genCalls is 1
\* when the exception came from the generation call of the main path
ChatRecovery(db, rf, req, owner, chatbot, dflt, ts, genCalls, retrievals) ==
    LET p == IF owner # None THEN get_profile_data(db.profiles, rf, owner)
             ELSE [ret |-> EmptyProfile, profiles |-> db.profiles]
        g == RecoveryGenerate(p.ret)
        lg == log_chat_message([db EXCEPT !.profiles = p.profiles], rf, req.message, g.response,
                               req.visitor_id, owner, chatbot.id,
                               dflt, ts)
    IN IF g.response = Coroutine
       \* ChatResponse(response=<coroutine>) fails validation: HTTP 500
       THEN Outcome(500, <<>>, lg.db, collection, owner, genCalls + g.calls, genCalls + g.raised,
                    g.args, retrievals, 1, lg.issued, 0)
       ELSE Outcome(200, g.response, lg.db, collection, owner, genCalls + g.calls, genCalls + g.raised,
                    g.args, retrievals, 1, lg.issued, 0)

\* chat, lines 48-65 with the handler of line 166: HTTPException(404) is an
\* Exception and is raised inside the try block
ChatUnresolved(db, rf, req, dflt, ts) ==
    ChatRecovery(db, rf, req, None, NoChatbot, dflt, ts, 0, 0)

\* POST /chat (routes/chatbot.chat) for a non-blank message
ChatHandler(rf, vf, tie, req, dflt, ts) ==
    LET r == get_or_create_chatbot(chatbots, rf, None, req.chatbot_id, dflt)
        db1 == [Db EXCEPT !.chatbots = r.chatbots]
    IN IF r.ret = NoChatbot THEN ChatUnresolved(db1, rf, req, dflt, ts)
       ELSE LET owner == r.ret.user_id
                p == get_profile_data(profiles, rf, owner)
                db2 == [db1 EXCEPT !.profiles = p.profiles]
                search_results == query_vector_db(collection, vf, tie, DefaultNResults, owner,
                                                  req.visitor_id, TRUE).ret
                fetched == get_chat_history(db2, rf, history_limit, req.visitor_id, r.ret.id)
                chat_history == sorted_chat_history(fetched)
                g == CallGenerate(ChatGenerateKwargs)
            IN \* g = "TypeError": the call raises; g = "coroutine": .strip() on the
               \* coroutine object raises AttributeError; the except path is taken
               [ChatRecovery(db2, rf, req, owner, r.ret, dflt, ts, 1, 1)
                   EXCEPT !.fetched = fetched, !.history = chat_history]

\* chat_with_public_chatbot, lines 514-540: the recovery path
PublicRecovery(db, has_profile, profile_data, owner, genCalls, retrievals) ==
    LET g == IF has_profile THEN RecoveryGenerate(profile_data) ELSE RecoveryGenerate(EmptyProfile)
    IN \* a coroutine response fails ChatResponse validation; the inner handler
       \* swallows that and the static text is returned
       Outcome(200, IF g.response = Coroutine THEN StaticFallbackText ELSE g.response,
               db, collection, owner, genCalls + g.calls, genCalls + g.raised, g.args, retrievals,
               0, <<>>, 0)

\* POST /chat/{user_id}/public (chat_with_public_chatbot) for a non-blank message
PublicChatHandler(rf, vf, tie, user_id, req, dflt) ==
    LET r == get_or_create_chatbot(chatbots, rf, user_id, None, dflt)
        db1 == [Db EXCEPT !.chatbots = r.chatbots]
    IN IF r.ret = NoChatbot THEN PublicRecovery(db1, FALSE, EmptyProfile, None, 0, 0)
       ELSE IF ~r.ret.is_public THEN PublicRecovery(db1, FALSE, EmptyProfile, None, 0, 0)
       ELSE LET p == get_profile_data(profiles, rf, user_id)
                db2 == [db1 EXCEPT !.profiles = p.profiles]
                search_results == query_vector_db(collection, vf, tie, DefaultNResults, user_id,
                                                  req.visitor_id, TRUE).ret
                fetched == get_chat_history(db2, rf, history_limit, req.visitor_id, r.ret.id)
                chat_history == sorted_chat_history(fetched)
                g == CallGenerate(ChatGenerateKwargs)
            IN [PublicRecovery(db2, TRUE, p.ret, user_id, 1, 1)
                   EXCEPT !.fetched = fetched, !.history = chat_history]

(***************************************************************************)
(* Specification Spec: chat requests served one after the other            *)
(***************************************************************************)
InitialProfiles == [u \in Users |-> IF u = "u1" THEN [name |-> "Ava"] ELSE NoProfileRow]

InitialCollection == <<
    Unit("bio_u1", "profile", "bio", "u1", None, 1),
    Unit("document_content_d1_u1", "document", "content", "u1", None, 1) >>

\* what the LLM would answer to a completion request while a request is served
LlmChoices == {[ok |-> TRUE, text |-> <<"I specialize in distributed caching.">>, error |-> None],
               [ok |-> FALSE, text |-> <<>>, error |-> "RateLimitError"]}

VecFailChoices == {{}, VecSites}

Messages == {<<>>, <<" ">>, <<"What do you specialize in?">>}

Init ==
    /\ supabase \in BOOLEAN
    /\ chatbots \in {{}, {c \in ExistingChatbots : c.user_id = "u1"}, ExistingChatbots}
    /\ visitors = {}
    /\ messages = <<>>
    /\ profiles = InitialProfiles
    /\ collection = InitialCollection
    /\ llm \in LlmChoices
    /\ vecfail \in VecFailChoices
    /\ last = [op |-> "init"]

Observed(op, req, target, known, rf, o) ==
    [op |-> op, message |-> req.message, visitor_id |-> req.visitor_id, target |-> target,
     known |-> known, rowHealthy |-> (supabase /\ rf = {}),
     status |-> o.status, response |-> o.response, owner |-> o.owner, genCalls |-> o.genCalls,
     genRaised |-> o.genRaised,
     retryArgs |-> o.retryArgs, llmCalls |-> o.llmCalls, retrievals |-> o.retrievals,
     persistCalls |-> o.persistCalls, issued |-> o.issued, indexCalls |-> o.indexCalls,
     fetched |-> o.fetched, history |-> o.history]

Apply(o) ==
    /\ chatbots' = o.db.chatbots
    /\ visitors' = o.db.visitors
    /\ messages' = o.db.messages
    /\ profiles' = o.db.profiles
    /\ collection' = o.collection
    /\ UNCHANGED <<supabase, llm, vecfail>>

\* lines 36-42 / 404-410: the canned clarification for a blank message
Clarification == Outcome(200, ClarificationText, Db, collection, None, 0, 0, <<>>, 0, 0, <<>>, 0)

\* one request POST /chat served
ChatServe(req, rf, dflt, ts) ==
    LET o == IF IsBlank(req.message) THEN Clarification
             ELSE ChatHandler(rf, vecfail, "asc", req, dflt, ts)
    IN /\ Apply(o)
       /\ last' = Observed("chat", req, req.chatbot_id,
                           req.chatbot_id # None /\ \E c \in chatbots : c.id = req.chatbot_id,
                           rf, o)

\* POST /chat
Chat(req, rf, dflt, ts) ==
    /\ Len(messages) < MaxMessages
    /\ ChatServe(req, rf, dflt, ts)

\* POST /chat/{user_id}/public
PublicChat(user_id, req, rf, dflt) ==
    /\ Len(messages) < MaxMessages
    /\ LET o == IF IsBlank(req.message) THEN Clarification
                ELSE PublicChatHandler(rf, vecfail, "asc", user_id, req, dflt)
       IN /\ Apply(o)
          /\ last' = Observed("chat_public", req, user_id, \E c \in chatbots : c.user_id = user_id,
                              rf, o)

ChatRequests == [message : Messages, visitor_id : VisitorIds,
                 chatbot_id : {None, UnknownChatbotId} \cup {ChatbotIdOf(u) : u \in Users}]

Next ==
    \E rf \in RowFailChoices, dflt \in DefaultChoices(chatbots) :
        \/ \E req \in ChatRequests, ts \in CreatedAtChoices(messages) : Chat(req, rf, dflt, ts)
        \/ \E req \in ChatRequests, user_id \in Users :
              req.chatbot_id = None /\ PublicChat(user_id, req, rf, dflt)

Spec == Init /\ [][Next]_vars

(***************************************************************************)
(* Specification SpecHistory: one chat request served over a row store     *)
(* that already holds exchanges of the visitor                             *)
(***************************************************************************)
MaxHistory == 3

\* the created_at seconds of the stored rows, in insertion order
StampSeqs(n) == {st \in [1 .. n -> 1 .. MaxHistory] : \A i \in 1 .. n - 1 : st[i] <= st[i + 1]}

\* the row the i-th healthy log_chat_message call of visitor v1 inserted
StoredRow(i, created_at, chatbot_id) ==
    [id |-> i, message |-> <<"What do you specialize in?">>, sender |-> "user",
     response |-> StaticFallbackText, created_at |-> created_at,
     visitor_id |-> VisitorUuid("v1"),
     visitor_id_text |-> IF i = 1 THEN None ELSE "v1",
     target_user_id |-> (CHOOSE c \in ExistingChatbots : c.id = chatbot_id).user_id,
     chatbot_id |-> chatbot_id]

InitHistory ==
    /\ supabase = TRUE
    /\ chatbots = ExistingChatbots
    /\ visitors = {"v1"}
    /\ \E n \in 0 .. MaxHistory :
          \E st \in StampSeqs(n), bots \in [1 .. n -> {c.id : c \in ExistingChatbots}] :
              messages = [i \in 1 .. n |-> StoredRow(i, st[i], bots[i])]
    /\ profiles = InitialProfiles
    /\ collection = InitialCollection
    /\ llm \in LlmChoices
    /\ vecfail = {}
    /\ last = [op |-> "init"]

\* POST /chat, once
ChatWithHistory(req, rf, dflt, ts) ==
    /\ last.op = "init"
    /\ ChatServe(req, rf, dflt, ts)

NextHistory ==
    \E rf \in RowFailChoices, dflt \in DefaultChoices(chatbots) :
        \E req \in ChatRequests, ts \in CreatedAtChoices(messages) : ChatWithHistory(req, rf, dflt, ts)

SpecHistory == InitHistory /\ [][NextHistory]_vars

(***************************************************************************)
(* Specification SpecPersist: the persist-and-index step of the chat       *)
(* handlers (routes/chatbot.chat lines 118-154, the same code at lines     *)
(* 476-502 and main.py lines 398-419), the code that runs once a           *)
(* generation call has returned a text                                     *)
(***************************************************************************)
\* str(uuid.uuid4()), the id used when no message id is passed
RandomUuid == <<"uuid4">>

\* chat, lines 118-154: [raised, persisted, indexed, response, db, collection].
\* log_result[0]["id"] raises KeyError on the record log_chat_message returns
\* when it found no chatbot id
PersistAndIndex(db, coll, rf, vf, req, ai_response, owner, chatbot, dflt, ts) ==
    LET response == IF IsBlank(ai_response) THEN EmptyResponseText ELSE ai_response
        lg == log_chat_message(db, rf, req.message, response, req.visitor_id, owner, chatbot.id, dflt, ts)
        message_id == IF lg.ret = "row" THEN lg.issued[1].id ELSE RandomUuid
        ix == add_conversation_to_vector_db(coll, vf, req.visitor_id, message_id, owner, 1)
    IN IF lg.ret = "dummy"
       THEN [raised |-> TRUE, persisted |-> FALSE, indexed |-> FALSE, response |-> response,
             db |-> lg.db, collection |-> coll]
       ELSE [raised |-> FALSE, persisted |-> lg.ret = "row", indexed |-> ix.ret, response |-> response,
             db |-> lg.db, collection |-> ix.collection]

\* the texts a generation call can have returned
GeneratedTexts == {<<>>, <<" ">>, <<"I specialize in distributed caching.">>, HighDemandText("Ava")}

InitPersist ==
    /\ supabase \in BOOLEAN
    /\ chatbots \in {{c \in ExistingChatbots : c.user_id = "u1"}, ExistingChatbots}
    /\ visitors = {}
    /\ messages = <<>>
    /\ profiles = InitialProfiles
    /\ collection = InitialCollection
    /\ llm = [ok |-> TRUE, text |-> <<"I specialize in distributed caching.">>, error |-> None]
    /\ vecfail \in VecFailChoices
    /\ last = [op |-> "init"]

\* the step for the exchange (req.message, ai_response) with the resolved chatbot
PersistStep(req, chatbot, ai_response, rf, dflt, ts) ==
    LET o == PersistAndIndex(Db, collection, rf, vecfail, req, ai_response, chatbot.user_id,
                             chatbot, dflt, ts)
    IN /\ ~IsBlank(req.message)
       /\ chatbot.id = req.chatbot_id
       /\ chatbots' = o.db.chatbots
       /\ visitors' = o.db.visitors
       /\ messages' = o.db.messages
       /\ profiles' = o.db.profiles
       /\ collection' = o.collection
       /\ last' = [op |-> "persist_index", message |-> req.message, response |-> o.response,
                   visitor_id |-> req.visitor_id, chatbot_id |-> chatbot.id, rowFailed |-> rf,
                   rowHealthy |-> (supabase /\ rf = {}), raised |-> o.raised,
                   persisted |-> o.persisted, indexed |-> o.indexed]
       /\ UNCHANGED <<supabase, llm, vecfail>>

NextPersist ==
    /\ last.op = "init"
    /\ \E rf \in RowFailChoices, dflt \in DefaultChoices(chatbots), req \in ChatRequests,
       chatbot \in chatbots, ai_response \in GeneratedTexts, ts \in CreatedAtChoices(messages) :
        PersistStep(req, chatbot, ai_response, rf, dflt, ts)

SpecPersist == InitPersist /\ [][NextPersist]_vars

(***************************************************************************)
(* Specification SpecIndex: profiles, project lists and documents of owner *)
(* u1 indexed one call after the other                                     *)
(***************************************************************************)
MaxIndexCalls == 3

\* the store's answer to an add of an id it holds is fixed by its version;
\* vecfail holds <<"add", "duplicate">> when it rejects the batch
DupMode(vf) == IF <<"add", "duplicate">> \in vf THEN "raise" ELSE "skip"

IndexFailChoices ==
    LET masks == {{}, IndexSites, {<<"delete", "">>}, {<<"add", "">>}}
    IN masks \cup {m \cup {<<"add", "duplicate">>} : m \in masks}

Project(id, title, description, content) ==
    [id |-> id, title |-> title, description |-> description, details |-> NoText, content |-> content]

\* a project with a content of three chunks, its edited version with a
\* short content, and a second project
ProjectP1 == Project("p1", Run("p1.title", 0, 12), Run("p1.description", 0, 80), Run("p1.content", 0, 1900))

ProjectP1Edited == Project("p1", Run("p1.title", 0, 12), NoText, Run("p1.content.v2", 0, 500))

ProjectP2 == Project("p2", Run("p2.title", 0, 9), NoText, Run("p2.content", 0, 300))

ProjectLists == [none |-> <<>>, p1 |-> <<ProjectP1>>, p1p2 |-> <<ProjectP1, ProjectP2>>,
                 p1edited |-> <<ProjectP1Edited>>]

ProfileOf(bio, project_list) ==
    [user_id |-> "u1", name |-> Run("name.Ava", 0, 3), location |-> NoText, bio |-> bio,
     skills |-> NoText, experience |-> NoText, projects |-> NoText, interests |-> NoText,
     project_list |-> project_list]

\* a profile with two projects, the same with the bio emptied and one project
\* removed, and the same without projects
IndexProfiles == [full |-> ProfileOf(Run("bio.v1", 0, 40), <<ProjectP1, ProjectP2>>),
                  edited |-> ProfileOf(NoText, <<ProjectP1>>),
                  noprojects |-> ProfileOf(Run("bio.v1", 0, 40), <<>>)]

Document(id, title, description, extracted_text) ==
    [id |-> id, title |-> title, description |-> description, extracted_text |-> extracted_text]

\* a document of three chunks, its edited version (shorter, no description)
\* and a second document
IndexDocuments == [d1 |-> Document("d1", Run("d1.title", 0, 8), Run("d1.description", 0, 30),
                                   Run("d1.text", 0, 1900)),
                   d1edited |-> Document("d1", Run("d1.title", 0, 8), NoText, Run("d1.text.v2", 0, 500)),
                   d2 |-> Document("d2", Run("d2.title", 0, 8), NoText, Run("d2.text", 0, 1000))]

\* units of another owner and a conversation unit of owner u1
ForeignUnits == <<
    IndexedUnit(<<"name", "u2">>, "profile", "name", "u2", Run("name.Bo", 0, 2), None),
    IndexedUnit(<<"project_title", "p9", "u2">>, "project", "title", "u2", Run("p9.title", 0, 5), "p9"),
    [IndexedUnit(<<"conversation", "m1">>, "conversation", "exchange", "u1", Run("m1", 0, 60), None)
        EXCEPT !.visitor_id = "v1"] >>

InitIndex ==
    /\ supabase = TRUE
    /\ chatbots = {}
    /\ visitors = {}
    /\ messages = <<>>
    /\ profiles = [u \in Users |-> NoProfileRow]
    /\ collection = ForeignUnits
    /\ llm = [ok |-> TRUE, text |-> <<>>, error |-> None]
    /\ vecfail \in IndexFailChoices
    /\ last = [op |-> "init", calls |-> 0]

\* the record of one indexing call; prev is the call before it
Indexed(op, arg, r) ==
    /\ last.calls < MaxIndexCalls
    /\ collection' = r.collection
    /\ last' = [op |-> op, arg |-> arg, ret |-> r.ret, calls |-> last.calls + 1,
                before |-> collection,
                prev |-> IF last.op = "init" THEN [op |-> "init", arg |-> "", ret |-> FALSE]
                         ELSE [op |-> last.op, arg |-> last.arg, ret |-> last.ret]]
    /\ UNCHANGED <<supabase, chatbots, visitors, messages, profiles, llm, vecfail>>

\* add_profile_to_vector_db(profile_data, user_id="u1")
IndexProfile(arg) ==
    Indexed("add_profile", arg,
            add_profile_to_vector_db(collection, vecfail, DupMode(vecfail), IndexProfiles[arg], "u1"))

\* add_projects_to_vector_db(projects_list, user_id="u1")
IndexProjects(arg) ==
    Indexed("add_projects", arg,
            add_projects_to_vector_db(collection, vecfail, DupMode(vecfail), ProjectLists[arg], "u1"))

\* add_document_to_vector_db(document_data, "u1")
IndexDocument(arg) ==
    Indexed("add_document", arg,
            add_document_to_vector_db(collection, vecfail, DupMode(vecfail), IndexDocuments[arg], "u1"))

NextIndex ==
    \/ \E arg \in DOMAIN IndexProfiles : IndexProfile(arg)
    \/ \E arg \in DOMAIN ProjectLists : IndexProjects(arg)
    \/ \E arg \in DOMAIN IndexDocuments : IndexDocument(arg)

SpecIndex == InitIndex /\ [][NextIndex]_vars

(***************************************************************************)
(* Profile rows and the profile, project and document routes               *)
(* (database.py lines 65-366 and 751-852, routes/profiles.py, main.py      *)
(* lines 208-260, routes/documents.py lines 36-162).  Here a row of the    *)
(* profiles table carries all its columns; get_profile_data above is the   *)
(* projection of get_profile_record on the name column.                    *)
(***************************************************************************)
\* a key that is missing from a dict
Unset == Run("unset", 0, 0)

required_fields == {"bio", "skills", "experience", "interests"}

\* the texts of DEFAULT_PROFILE, lines 22-29
DefaultField == [name |-> Run("DEFAULT_PROFILE.name", 0, 8), location |-> NoText,
                 bio |-> Run("DEFAULT_PROFILE.bio", 0, 183),
                 skills |-> Run("DEFAULT_PROFILE.skills", 0, 109),
                 experience |-> Run("DEFAULT_PROFILE.experience", 0, 129),
                 interests |-> Run("DEFAULT_PROFILE.interests", 0, 61)]

\* a row of the profiles table; projects is the list held by the JSON column
ProfileRow(user_id, name, location, bio, skills, experience, interests, projects) ==
    [user_id |-> user_id, name |-> name, location |-> location, bio |-> bio, skills |-> skills,
     experience |-> experience, interests |-> interests, projects |-> projects]

\* a profile dict: the columns, project_list, and whether it has a "projects" key
ProfileDict(row, project_list, has_projects) ==
    [user_id |-> row.user_id, name |-> row.name, location |-> row.location, bio |-> row.bio,
     skills |-> row.skills, experience |-> row.experience, interests |-> row.interests,
     projects |-> row.projects, project_list |-> project_list, has_projects |-> has_projects]

DefaultRow(user_id) ==
    ProfileRow(user_id, DefaultField.name, NoText, DefaultField.bio, DefaultField.skills,
               DefaultField.experience, DefaultField.interests, <<>>)

\* get_profile_data(user_id) on whole rows: [ret, profiles]
get_profile_record(tbl, rf, user_id) ==
    IF supabase /\ user_id # None
    THEN IF "profiles" \in rf
         THEN [ret |-> ProfileDict(DefaultRow(user_id), <<>>, FALSE), profiles |-> tbl]
         ELSE IF tbl[user_id] # NoProfileRow
              THEN [ret |-> ProfileDict(tbl[user_id], tbl[user_id].projects, TRUE), profiles |-> tbl]
              ELSE [ret |-> ProfileDict(DefaultRow(user_id), <<>>, TRUE),
                    profiles |-> [tbl EXCEPT ![user_id] = DefaultRow(user_id)]]
    ELSE [ret |-> ProfileDict(DefaultRow(None), <<>>, FALSE), profiles |-> tbl]

\* update_profile_data, lines 226-231: the value written for a required field
RequiredField(data, field) ==
    IF TextLen(data[field]) = 0 THEN DefaultField[field] ELSE data[field]

\* update_profile_data(data, user_id): [ok, ret, profiles].  update() writes
\* the keys of filtered_data and leaves the other columns of the row alone
update_profile_data(tbl, rf, data, user_id) ==
    LET effective_user_id == IF data.user_id # None THEN data.user_id ELSE user_id
        stored == IF effective_user_id # None /\ tbl[effective_user_id] # NoProfileRow
                  THEN tbl[effective_user_id]
                  ELSE ProfileRow(effective_user_id, NoText, NoText, NoText, NoText, NoText, NoText, <<>>)
        Column(f) == IF data[f] = Unset THEN stored[f] ELSE data[f]
        row == ProfileRow(effective_user_id, Column("name"), Column("location"),
                          RequiredField(data, "bio"), RequiredField(data, "skills"),
                          RequiredField(data, "experience"), RequiredField(data, "interests"),
                          IF data.project_list # <<>> THEN data.project_list
                          ELSE IF data.has_projects THEN data.projects
                          ELSE stored.projects)
        local_profile == ProfileDict([DefaultRow(effective_user_id) EXCEPT
                                         !.name = IF data.name = Unset THEN @ ELSE data.name,
                                         !.location = IF data.location = Unset THEN @ ELSE data.location,
                                         !.bio = data.bio, !.skills = data.skills,
                                         !.experience = data.experience, !.interests = data.interests],
                                     data.project_list, data.has_projects)
    IN IF ~supabase \/ effective_user_id = None
       THEN [ok |-> TRUE, ret |-> local_profile, profiles |-> tbl]
       ELSE IF "profiles" \in rf
       THEN [ok |-> FALSE, ret |-> local_profile, profiles |-> tbl]
       ELSE [ok |-> TRUE, ret |-> ProfileDict(row, row.projects, TRUE),
             profiles |-> [tbl EXCEPT ![effective_user_id] = row]]

\* add_project(project_data, user_id): [ok, ret, profiles]; id is the uuid drawn
add_project(tbl, rf, project_data, id, user_id) ==
    LET g == get_profile_record(tbl, rf, user_id)
        profile == [g.ret EXCEPT !.project_list = Append(@, [project_data EXCEPT !.id = id])]
    IN update_profile_data(g.profiles, rf, profile, user_id)

\* update_project(project_id, project_data, user_id): [ok, ret, profiles]
update_project(tbl, rf, project_id, project_data, user_id) ==
    LET g == get_profile_record(tbl, rf, user_id)
        list == g.ret.project_list
        found == \E i \in 1 .. Len(list) : list[i].id = project_id
        first == CHOOSE i \in 1 .. Len(list) :
                     list[i].id = project_id /\ \A j \in 1 .. i - 1 : list[j].id # project_id
        profile == [g.ret EXCEPT !.project_list[first] = [project_data EXCEPT !.id = project_id]]
    IN IF ~found THEN [ok |-> FALSE, ret |-> g.ret, profiles |-> g.profiles]
       ELSE update_profile_data(g.profiles, rf, profile, user_id)

\* delete_project(project_id, user_id): [ok, ret, profiles]
delete_project(tbl, rf, project_id, user_id) ==
    LET g == get_profile_record(tbl, rf, user_id)
        Other(p) == p.id # project_id
        kept == SelectSeq(g.ret.project_list, Other)
        profile == [g.ret EXCEPT !.project_list = kept]
    IN IF Len(kept) = Len(g.ret.project_list) THEN [ok |-> FALSE, ret |-> g.ret, profiles |-> g.profiles]
       ELSE update_profile_data(g.profiles, rf, profile, user_id)

RECURSIVE JsonLen(_)
JsonLen(list) ==
    IF list = <<>> THEN 0
    ELSE TextLen(Head(list).title) + TextLen(Head(list).description) + TextLen(Head(list).content)
         + JsonLen(Tail(list))

\* json.dumps of a project list, the text of the projects column: "[]" for
\* the empty list
json_dumps(list) == Run("projects.json", 0, 2 + JsonLen(list))

\* the dict as add_profile_to_vector_db reads it: the value under "projects"
\* is the JSON text, with id the record's user_id
AsProfileData(profile) ==
    [user_id |-> profile.user_id,
     name |-> IF profile.name = Unset THEN NoText ELSE profile.name,
     location |-> IF profile.location = Unset THEN NoText ELSE profile.location,
     bio |-> profile.bio, skills |-> profile.skills, experience |-> profile.experience,
     interests |-> profile.interests,
     projects |-> IF profile.has_projects THEN json_dumps(profile.projects) ELSE NoText,
     project_list |-> profile.project_list]

\* the result of a route: status, the value the indexing call returned
\* (FALSE when none was made), the tables and the collection
RouteResult(status, indexed, tbl, coll) ==
    [status |-> status, indexed |-> indexed, profiles |-> tbl, collection |-> coll]

\* routes/profiles.update_profile, lines 39-77: profile_data.dict() carries
\* every field, None for one that was not sent
update_profile(tbl, coll, rf, vf, profile_data, user_id) ==
    LET data_dict == [profile_data EXCEPT !.name = IF @ = Unset THEN NoText ELSE @,
                                          !.location = IF @ = Unset THEN NoText ELSE @]
        updated_data == update_profile_data(tbl, rf, data_dict, user_id)
        ix == add_profile_to_vector_db(coll, vf, DupMode(vf), AsProfileData(data_dict), user_id)
    IN IF ~updated_data.ok THEN RouteResult(500, FALSE, updated_data.profiles, coll)
       ELSE RouteResult(200, ix.ret, updated_data.profiles, ix.collection)

\* main.update_profile_handler, lines 208-260: profile_data.dict(exclude_unset=True)
\* carries the fields that were sent
update_profile_handler(tbl, coll, rf, vf, profile_data, user_id) ==
    LET profile_dict == [profile_data EXCEPT !.user_id = IF @ # None THEN @ ELSE user_id]
        updated_profile == update_profile_data(tbl, rf, profile_dict, profile_dict.user_id)
        ix == add_profile_to_vector_db(coll, vf, DupMode(vf), AsProfileData(updated_profile.ret), None)
    IN IF ~updated_profile.ok THEN RouteResult(500, FALSE, updated_profile.profiles, coll)
       ELSE RouteResult(200, ix.ret, updated_profile.profiles, ix.collection)

\* the tail shared by create_project and edit_project; failed is the status
\* raised when the row-store call returned None
ProjectRoute(updated_profile, failed, coll, vf, user_id) ==
    LET ix == add_profile_to_vector_db(coll, vf, DupMode(vf), AsProfileData(updated_profile.ret), user_id)
    IN IF ~updated_profile.ok THEN RouteResult(failed, FALSE, updated_profile.profiles, coll)
       ELSE RouteResult(200, ix.ret, updated_profile.profiles, ix.collection)

\* routes/profiles.create_project, lines 79-113
create_project(tbl, coll, rf, vf, project, id, user_id) ==
    ProjectRoute(add_project(tbl, rf, project, id, user_id), 500, coll, vf, user_id)

\* routes/profiles.edit_project, lines 115-150
edit_project(tbl, coll, rf, vf, project_id, project, user_id) ==
    ProjectRoute(update_project(tbl, rf, project_id, project, user_id), 404, coll, vf, user_id)

\* routes/profiles.remove_project, lines 152-177
remove_project(tbl, coll, rf, vf, project_id, user_id) ==
    LET success == delete_project(tbl, rf, project_id, user_id)
        g == get_profile_record(success.profiles, rf, user_id)
        ix == add_profile_to_vector_db(coll, vf, DupMode(vf), AsProfileData(g.ret), user_id)
    IN IF ~success.ok THEN RouteResult(404, FALSE, success.profiles, coll)
       ELSE RouteResult(200, ix.ret, g.profiles, ix.collection)

\* routes/documents.process_document, lines 36-162, for a PDF the caller may
\* process: the response is "success" with vector_db_indexed
process_document(tbl, coll, vf, document_data, userId) ==
    LET ix == add_document_to_vector_db(coll, vf, DupMode(vf), document_data, userId)
    IN RouteResult(200, ix.ret, tbl, ix.collection)

(***************************************************************************)
(* Specification SpecProfile: owner u1 edits the profile and its projects  *)
(* and uploads documents                                                   *)
(***************************************************************************)
MaxProfileOps == 2

StoredProfile(projects) ==
    ProfileRow("u1", Run("name.Ava", 0, 3), Run("location.Berlin", 0, 6), Run("bio.v1", 0, 40),
               Run("skills.v1", 0, 25), Run("experience.v1", 0, 60), Run("interests.v1", 0, 20),
               projects)

\* the bodies of profile updates: every field rewritten; the optional fields
\* left out and the bio emptied; the optional fields left out, nothing emptied
ProfileUpdates ==
    [rewritten |-> ProfileDict(ProfileRow(None, Run("name.Ava Li", 0, 6), Run("location.Oslo", 0, 4),
                                          Run("bio.v2", 0, 55), Run("skills.v2", 0, 30),
                                          Run("experience.v1", 0, 60), Run("interests.v1", 0, 20), <<>>),
                               <<ProjectP1>>, FALSE),
     emptied |-> ProfileDict(ProfileRow(None, Unset, Unset, NoText, Run("skills.v1", 0, 25),
                                        Run("experience.v1", 0, 60), Run("interests.v1", 0, 20), <<>>),
                             <<>>, FALSE),
     partial |-> ProfileDict(ProfileRow(None, Unset, Unset, Run("bio.v2", 0, 55), Run("skills.v1", 0, 25),
                                        Run("experience.v1", 0, 60), Run("interests.v1", 0, 20), <<>>),
                             <<>>, FALSE)]

ProjectPool == [p1 |-> ProjectP1, p1edited |-> ProjectP1Edited, p2 |-> ProjectP2]

ProjectIds == {"p1", "p2", "p3"}

UploadedDocument == Document("temp_u1_1", Run("d1.title", 0, 8), NoText, Run("d1.text", 0, 1900))

ProfileFailChoices == {{}, IndexSites}

InitProfile ==
    /\ supabase = TRUE
    /\ chatbots = {}
    /\ visitors = {}
    /\ messages = <<>>
    /\ profiles \in {[u \in Users |-> IF u = "u1" THEN StoredProfile(list) ELSE NoProfileRow] :
                        list \in {<<>>, <<ProjectP1>>, <<ProjectP1, ProjectP2>>}}
    /\ collection = ForeignUnits
    /\ llm = [ok |-> TRUE, text |-> <<>>, error |-> None]
    /\ vecfail \in ProfileFailChoices
    /\ last = [op |-> "init", calls |-> 0]

\* the record of one request of owner u1
Routed(op, arg, target, rf, r) ==
    /\ last.calls < MaxProfileOps
    /\ profiles' = r.profiles
    /\ collection' = r.collection
    /\ last' = [op |-> op, arg |-> arg, target |-> target, status |-> r.status,
                indexed |-> r.indexed, calls |-> last.calls + 1, rowHealthy |-> rf = {},
                before |-> profiles["u1"]]
    /\ UNCHANGED <<supabase, chatbots, visitors, messages, llm, vecfail>>

UpdateProfile(arg, rf) ==
    Routed("update_profile", arg, "", rf,
           update_profile(profiles, collection, rf, vecfail, ProfileUpdates[arg], "u1"))

UpdateProfileHandler(arg, rf) ==
    Routed("update_profile_handler", arg, "", rf,
           update_profile_handler(profiles, collection, rf, vecfail, ProfileUpdates[arg], "u1"))

CreateProject(arg, id, rf) ==
    /\ \A i \in 1 .. Len(profiles["u1"].projects) : profiles["u1"].projects[i].id # id
    /\ Routed("create_project", arg, id, rf,
              create_project(profiles, collection, rf, vecfail, ProjectPool[arg], id, "u1"))

EditProject(project_id, arg, rf) ==
    Routed("edit_project", arg, project_id, rf,
           edit_project(profiles, collection, rf, vecfail, project_id, ProjectPool[arg], "u1"))

RemoveProject(project_id, rf) ==
    Routed("remove_project", "", project_id, rf,
           remove_project(profiles, collection, rf, vecfail, project_id, "u1"))

ProcessDocument(rf) ==
    Routed("process_document", "", UploadedDocument.id, rf,
           process_document(profiles, collection, vecfail, UploadedDocument, "u1"))

NextProfile ==
    \E rf \in {{}, RowTables} :
        \/ \E arg \in DOMAIN ProfileUpdates : UpdateProfile(arg, rf)
        \/ \E arg \in DOMAIN ProfileUpdates : UpdateProfileHandler(arg, rf)
        \/ \E arg \in DOMAIN ProjectPool, id \in ProjectIds : CreateProject(arg, id, rf)
        \/ \E arg \in DOMAIN ProjectPool, project_id \in ProjectIds : EditProject(project_id, arg, rf)
        \/ \E project_id \in ProjectIds : RemoveProject(project_id, rf)
        \/ ProcessDocument(rf)

SpecProfile == InitProfile /\ [][NextProfile]_vars

(***************************************************************************)
(* Specification SpecChunk: a project content or a document text of any    *)
(* length up to MaxTextLen is indexed into an empty collection             *)
(***************************************************************************)
MaxTextLen == 2800

InitChunk ==
    /\ supabase = TRUE
    /\ chatbots = {}
    /\ visitors = {}
    /\ messages = <<>>
    /\ profiles = [u \in Users |-> NoProfileRow]
    /\ collection = <<>>
    /\ llm = [ok |-> TRUE, text |-> <<>>, error |-> None]
    /\ vecfail = {}
    /\ last \in {[op |-> "init", text |-> Run("text", 0, n)] : n \in 0 .. MaxTextLen}

ChunkIndexed(op, r) ==
    /\ last.op = "init"
    /\ collection' = r.collection
    /\ last' = [op |-> op, text |-> last.text, ret |-> r.ret]
    /\ UNCHANGED <<supabase, chatbots, visitors, messages, profiles, llm, vecfail>>

\* add_projects_to_vector_db of one project whose content is the text
IndexProjectContent ==
    ChunkIndexed("add_projects",
                 add_projects_to_vector_db(collection, vecfail, DupMode(vecfail),
                                           <<Project("p1", Run("p1.title", 0, 12), NoText, last.text)>>, "u1"))

\* add_document_to_vector_db of a document whose extracted text is the text
IndexDocumentText ==
    ChunkIndexed("add_document",
                 add_document_to_vector_db(collection, vecfail, DupMode(vecfail),
                                           Document("d1", Run("d1.title", 0, 8), NoText, last.text), "u1"))

NextChunk == IndexProjectContent \/ IndexDocumentText

SpecChunk == InitChunk /\ [][NextChunk]_vars

(***************************************************************************)
(* Specification SpecRender: format_conversation_history applied to the    *)
(* histories get_chat_history can return                                   *)
(***************************************************************************)
MaxRendered == 3

\* a row as log_chat_message writes it: the call sites pass sender="user",
\* the visitor's message and the response of the exchange
ExchangeRows == {[sender |-> "user", message |-> m, response |-> r] :
                    m \in {<<"Hello">>, <<"What do you do?">>},
                    r \in {<<"Hi, I am Ava.">>, <<"I build caches.">>}}

InitRender ==
    /\ supabase = TRUE
    /\ chatbots = {}
    /\ visitors = {}
    /\ messages = <<>>
    /\ profiles = [u \in Users |-> NoProfileRow]
    /\ collection = <<>>
    /\ llm = [ok |-> TRUE, text |-> <<>>, error |-> None]
    /\ vecfail = {}
    /\ last \in {[op |-> "init", chat_history |-> h] :
                    h \in UNION {[1 .. n -> ExchangeRows] : n \in 0 .. MaxRendered}}

\* format_conversation_history(chat_history), as the prompt embeds it
Render ==
    /\ last.op = "init"
    /\ last' = [op |-> "render", chat_history |-> last.chat_history,
                rendered |-> format_conversation_history(last.chat_history)]
    /\ UNCHANGED <<supabase, chatbots, visitors, messages, profiles, collection, llm, vecfail>>

NextRender == Render

SpecRender == InitRender /\ [][NextRender]_vars

(***************************************************************************)
(* Specification SpecQuery: query_vector_db applied to bounded collections *)
(***************************************************************************)
NoProfiles == [u \in Users |-> NoProfileRow]

\* the units a bounded collection is drawn from, in storage order
CandidateUnits == <<
    [id |-> "bio_u1", category |-> "profile", subcategory |-> "bio", user_id |-> "u1", visitor_id |-> None],
    [id |-> "document_content_d1_u1", category |-> "document", subcategory |-> "content", user_id |-> "u1", visitor_id |-> None],
    [id |-> "project_title_p1_u1", category |-> "project", subcategory |-> "title", user_id |-> "u1", visitor_id |-> None],
    [id |-> "conversation_m1", category |-> "conversation", subcategory |-> "exchange", user_id |-> "u1", visitor_id |-> "v1"],
    [id |-> "conversation_m2", category |-> "conversation", subcategory |-> "exchange", user_id |-> "u2", visitor_id |-> "v1"] >>

RECURSIVE CollectionOf(_, _)
CollectionOf(pick, i) ==
    IF i > Len(CandidateUnits) THEN <<>>
    ELSE IF pick[i] = 0 THEN CollectionOf(pick, i + 1)
    ELSE <<Unit(CandidateUnits[i].id, CandidateUnits[i].category, CandidateUnits[i].subcategory,
                CandidateUnits[i].user_id, CandidateUnits[i].visitor_id, pick[i])>>
         \o CollectionOf(pick, i + 1)

BoundedCollections == {CollectionOf(pick, 1) : pick \in [1 .. Len(CandidateUnits) -> {0} \cup Dists]}

ReadSites == {<<"get", c>> : c \in Categories} \cup {<<"query", c>> : c \in Categories}
             \cup {<<"query", "general">>}

QuerySites == {<<"query", c>> : c \in Categories} \cup {<<"query", "general">>}

\* every combination of failing query calls, every single failing call, all
\* existence probes failing, all reads failing, everything failing
QueryFailChoices == SUBSET QuerySites \cup {{site} : site \in VecSites}
                    \cup {ReadSites \ QuerySites, ReadSites, VecSites}

InitQuery ==
    /\ supabase = TRUE
    /\ chatbots = {}
    /\ visitors = {}
    /\ messages = <<>>
    /\ profiles = NoProfiles
    /\ collection \in BoundedCollections
    /\ llm = [ok |-> TRUE, text |-> <<>>, error |-> None]
    /\ vecfail = {}
    /\ last = [op |-> "init"]

\* one call query_vector_db(query, n_results, user_id, visitor_id, include_conversation)
QueryVectorDb(n_results, user_id, visitor_id, include_conversation, vf, tie) ==
    LET r == query_vector_db(collection, vf, tie, n_results, user_id, visitor_id, include_conversation)
    IN /\ last.op = "init"
       /\ last' = [op |-> "query", user_id |-> user_id, visitor_id |-> visitor_id,
                   include_conversation |-> include_conversation,
                   allFail |-> (VecSites \ {<<"add", "">>}) \subseteq vf,
                   readsFail |-> ReadSites \subseteq vf,
                   fallback |-> ScopedMerge(collection, vf, tie, n_results, user_id, visitor_id,
                                            include_conversation) = <<>>,
                   merge |-> r.merge, ret |-> r.ret, raised |-> r.raised]
       /\ UNCHANGED <<supabase, chatbots, visitors, messages, profiles, collection, llm, vecfail>>

NextQuery ==
    \/ \E user_id \in Users \cup {None}, visitor_id \in {None, "v1"}, include_conversation \in BOOLEAN,
          vf \in QueryFailChoices, tie \in {"asc", "desc"}, n_results \in {DefaultNResults} :
           QueryVectorDb(n_results, user_id, visitor_id, include_conversation, vf, tie)
    \* a visitor without conversation units, the store working
    \/ \E user_id \in Users, tie \in {"asc", "desc"} :
           QueryVectorDb(DefaultNResults, user_id, "v2", TRUE, {}, tie)

SpecQuery == InitQuery /\ [][NextQuery]_vars

(***************************************************************************)
(* Properties of query_vector_db (under SpecQuery)                         *)
(***************************************************************************)
IsResultStructure(r) ==
    /\ DOMAIN r = {"documents", "metadatas", "distances"}
    /\ Len(r.documents) = Len(r.metadatas)
    /\ Len(r.documents) = Len(r.distances)

\* C2: query_vector_db never raises to its caller: whatever vector-store calls
\* fail it returns a result structure, and when every call fails the
\* structure is empty.
C2_QueryNeverRaises ==
    last.op = "query" =>
        /\ ~last.raised
        /\ IsResultStructure(last.ret)
        /\ last.allFail => last.ret = EmptyResults

C2_Witness ==
    /\ last.op = "query"
    /\ last.allFail
    /\ Len(collection) > 0
    /\ last.user_id = "u1"
    /\ last.ret = EmptyResults

PositionIn(s, id) == CHOOSE i \in 1 .. Len(s) : s[i].id = id

CategoryRank(c) == CASE c = "document" -> 1 [] c = "profile" -> 2 [] c = "project" -> 3
                     [] c = "conversation" -> 4 [] OTHER -> 5

\* C3: the result is the merge list (document, profile, project, conversation
\* results, else the general fallback) stably sorted ascending by distance:
\* distances never decrease along the result, entries of equal distance keep
\* their merge order, so among equal distances of the scoped results a
\* document entry precedes a profile entry.
C3_StableSortedMerge ==
    (last.op = "query" /\ last.merge # <<>>) =>
        LET r == last.ret
            m == last.merge
            n == Len(r.documents)
        IN /\ n = Len(m)
           /\ {r.documents[i] : i \in 1 .. n} = {m[i].id : i \in 1 .. n}
           /\ \A i \in 1 .. n :
                LET k == PositionIn(m, r.documents[i])
                IN r.metadatas[i] = Meta(m[k]) /\ r.distances[i] = m[k].dist
           /\ \A i, j \in 1 .. n : i < j =>
                /\ r.distances[i] <= r.distances[j]
                /\ r.distances[i] = r.distances[j] =>
                      PositionIn(m, r.documents[i]) < PositionIn(m, r.documents[j])
           /\ ~last.fallback =>
                \A i, j \in 1 .. n :
                    (i < j /\ r.distances[i] = r.distances[j]) =>
                        CategoryRank(r.metadatas[i].category) <= CategoryRank(r.metadatas[j].category)

C3_Witness ==
    /\ last.op = "query"
    /\ ~last.fallback
    /\ Len(last.ret.documents) >= 3
    /\ \E i, j \in 1 .. Len(last.ret.documents) :
         /\ i < j
         /\ last.ret.metadatas[i].category = "document"
         /\ last.ret.metadatas[j].category = "profile"
         /\ last.ret.distances[i] = last.ret.distances[j]
    /\ \E i, j \in 1 .. Len(last.ret.documents) :
         last.ret.distances[i] < last.ret.distances[j]

(***************************************************************************)
(* Specification SpecGen: generate_ai_response awaited on bounded          *)
(* retrieval results                                                       *)
(***************************************************************************)
MaxResults == 6

\* the documents of a retrieval result, named by their position
ResultNames == <<"r1", "r2", "r3", "r4", "r5", "r6", "r7", "r8", "r9">>

\* the categories a stored unit can carry: the four sections and one other
GenCategories == Categories \cup {"skills"}

SubcategoryOf(category) ==
    CASE category = "document" -> "content"
      [] category = "project" -> "title"
      [] category = "conversation" -> "exchange"
      [] category = "profile" -> "bio"
      [] OTHER -> "list"

\* the retrieval result whose i-th entry has category cs[i]
ResultsWith(cs) ==
    ResultsOf([i \in 1 .. Len(cs) |-> Unit(ResultNames[i], cs[i], SubcategoryOf(cs[i]), "u1", None, 1)])

\* the category sequences of the retrieval results of a given length
CategorySeqs(n) == [1 .. n -> GenCategories]

GenProfile == [user_id |-> "u1", name |-> "Ava"]

GenHistories == {<<>>,
                 <<[sender |-> "user", message |-> <<"Hello">>, response |-> <<"Hi, I am Ava.">>],
                   [sender |-> "bot", message |-> <<"Hello">>, response |-> <<"Hi, I am Ava.">>]>>}

GenLlmChoices == {[ok |-> TRUE, text |-> <<"I specialize in distributed caching.">>, error |-> None]}
                 \cup {[ok |-> FALSE, text |-> <<>>, error |-> e] : e \in LlmErrors}

InitGen ==
    /\ supabase = TRUE
    /\ chatbots = {}
    /\ visitors = {}
    /\ messages = <<>>
    /\ profiles = NoProfiles
    /\ collection = <<>>
    /\ llm \in GenLlmChoices
    /\ vecfail = {}
    /\ last = [op |-> "init"]

\* one call: await generate_ai_response(message, search_results, profile_data, chat_history)
Generate(search_results, profile_data, chat_history) ==
    LET g == GenerateBody(search_results, profile_data, chat_history, llm)
    IN /\ last.op = "init"
       /\ CallGenerate(GenerateRequired) = "coroutine"
       /\ last' = [op |-> "generate", search_results |-> search_results,
                   name |-> profile_data.name, chat_history |-> chat_history,
                   prompt |-> g.prompt, text |-> g.text]
       /\ UNCHANGED <<supabase, chatbots, visitors, messages, profiles, collection, llm, vecfail>>

NextGen ==
    /\ last.op = "init"
    /\ \E n \in 0 .. MaxResults, chat_history \in GenHistories :
          \E cs \in CategorySeqs(n) : Generate(ResultsWith(cs), GenProfile, chat_history)

SpecGen == InitGen /\ [][NextGen]_vars

(***************************************************************************)
(* Meeting short-circuit of main.chat (main.is_valid_meeting_request).     *)
(* Here a text is the sequence of its characters.                          *)
(***************************************************************************)
UpperLetters == <<"A", "B", "C", "D", "E", "F", "G", "H", "I", "J", "K", "L", "M",
                  "N", "O", "P", "Q", "R", "S", "T", "U", "V", "W", "X", "Y", "Z">>

LowerLetters == <<"a", "b", "c", "d", "e", "f", "g", "h", "i", "j", "k", "l", "m",
                  "n", "o", "p", "q", "r", "s", "t", "u", "v", "w", "x", "y", "z">>

LowerChar(c) ==
    IF \E i \in 1 .. Len(UpperLetters) : UpperLetters[i] = c
    THEN LowerLetters[CHOOSE i \in 1 .. Len(UpperLetters) : UpperLetters[i] = c]
    ELSE c

\* str.lower
Lower(s) == [i \in 1 .. Len(s) |-> LowerChar(s[i])]

\* sub in s
Contains(sub, s) ==
    \E i \in 0 .. Len(s) - Len(sub) : SubSeq(s, i + 1, i + Len(sub)) = sub

\* s.split(sep) for a one-character separator
RECURSIVE Split(_, _)
Split(s, sep) ==
    IF \A i \in 1 .. Len(s) : s[i] # sep THEN <<s>>
    ELSE LET k == CHOOSE i \in 1 .. Len(s) : s[i] = sep /\ \A j \in 1 .. i - 1 : s[j] # sep
         IN <<SubSeq(s, 1, k - 1)>> \o Split(SubSeq(s, k + 1, Len(s)), sep)

meeting_keywords == <<
    <<"m", "e", "e", "t">>,
    <<"m", "e", "e", "t", "i", "n", "g">>,
    <<"s", "c", "h", "e", "d", "u", "l", "e">>,
    <<"a", "p", "p", "o", "i", "n", "t", "m", "e", "n", "t">>,
    <<"c", "h", "a", "t">>,
    <<"d", "i", "s", "c", "u", "s", "s">>,
    <<"c", "a", "l", "l">> >>

\* any(keyword in message for keyword in meeting_keywords)
HasMeetingKeyword(message) ==
    \E k \in 1 .. Len(meeting_keywords) : Contains(meeting_keywords[k], message)

is_valid_meeting_request(message, meeting_rules) ==
    IF meeting_rules = <<>> THEN TRUE
    ELSE LET msg == Lower(message)
             rules == Lower(meeting_rules)
             parts == Split(rules, ",")
             allowed_purposes == [i \in 1 .. Len(parts) |-> Strip(parts[i])]
         IN IF ~HasMeetingKeyword(msg) THEN FALSE
            ELSE \E i \in 1 .. Len(allowed_purposes) : Contains(allowed_purposes[i], msg)

MeetingLinkText(calendly_link) ==
    <<"I'd be happy to help you schedule a meeting! You can use my Calendly link to find a suitable time: ",
      calendly_link, "Please select a time that works best for you.">>

MeetingPolicyText == <<"I understand you'd like to schedule a meeting. However, based on our meeting policy, I can only schedule meetings for specific purposes. Could you please clarify the purpose of the meeting?">>

\* the attribute read chat_request.<field>: AttributeError on a name that is
\* not a field of the request model
HasAttr(req, field) == field \in DOMAIN req

MeetOutcome(status, response, retrievals, genCalls) ==
    [status |-> status, response |-> response, retrievals |-> retrievals, genCalls |-> genCalls]

\* main.chat, lines 317-426: the normal handling reads chat_request.target_user_id
\* and, past retrieval, slices the un-awaited result of generate_ai_response;
\* either exception ends in "except Exception" and HTTP 500
MainChatNormal(req) ==
    IF ~HasAttr(req, "target_user_id") THEN MeetOutcome(500, <<>>, 0, 0)
    ELSE IF IsBlank(req.message) THEN MeetOutcome(200, <<"I didn't receive a valid message. Please try again.">>, 0, 0)
    ELSE MeetOutcome(500, <<>>, 1, 1)

\* main.chat, lines 290-315 and its "except Exception" clause
MainChat(tbl, req) ==
    IF ~HasAttr(req, "messages") THEN MeetOutcome(500, <<>>, 0, 0)
    ELSE
    LET user_message == IF req.messages # <<>> THEN Lower(req.messages[Len(req.messages)].content)
                        ELSE <<>>
    IN IF ~HasMeetingKeyword(user_message) THEN MainChatNormal(req)
       ELSE IF ~HasAttr(req, "user_id") THEN MeetOutcome(500, <<>>, 0, 0)
       ELSE LET profile_data == IF req.user_id # None THEN tbl[req.user_id] ELSE [calendly_link |-> None]
            IN IF profile_data.calendly_link = None THEN MainChatNormal(req)
               ELSE IF is_valid_meeting_request(user_message, profile_data.meeting_rules)
               THEN MeetOutcome(200, MeetingLinkText(profile_data.calendly_link), 0, 0)
               ELSE MeetOutcome(200, MeetingPolicyText, 0, 0)

(***************************************************************************)
(* Specification SpecMeet: main.chat and is_valid_meeting_request on       *)
(* bounded messages and meeting rules                                      *)
(***************************************************************************)
MeetMessages == {
    <<"c", "a", "n", " ", "w", "e", " ", "s", "c", "h", "e", "d", "u", "l", "e", " ", "a", " ", "c", "a", "l", "l", " ", "t", "o", " ", "d", "i", "s", "c", "u", "s", "s", " ", "c", "o", "n", "s", "u", "l", "t", "i", "n", "g">>,
    <<"C", "a", "n", " ", "w", "e", " ", "M", "E", "E", "T", " ", "a", "b", "o", "u", "t", " ", "C", "o", "n", "s", "u", "l", "t", "i", "n", "g">>,
    <<"s", "c", "h", "e", "d", "u", "l", "e", " ", "a", " ", "c", "a", "l", "l">>,
    <<"w", "h", "a", "t", " ", "a", "r", "e", " ", "y", "o", "u", "r", " ", "s", "k", "i", "l", "l", "s">>,
    <<"l", "e", "t", "s", " ", "c", "h", "a", "t">>,
    <<>>,
    <<"c", "a", "l", "l", " ", "a", "b", "o", "u", "t", " ", "p", "r", "o", "j", "e", "c", "t", " ", "d", "i", "s", "c", "u", "s", "s", "i", "o", "n", "s">>,
    <<"t", "e", "l", "l", " ", "m", "e", " ", "a", "b", "o", "u", "t", " ", "c", "o", "n", "s", "u", "l", "t", "i", "n", "g">> }

MeetRules == {
    <<>>,
    <<"c", "o", "n", "s", "u", "l", "t", "i", "n", "g", ",", " ", "p", "r", "o", "j", "e", "c", "t", " ", "d", "i", "s", "c", "u", "s", "s", "i", "o", "n", "s">>,
    <<"C", "o", "n", "s", "u", "l", "t", "i", "n", "g">>,
    <<"h", "i", "r", "i", "n", "g">> }

CalendlyLinks == {None, "https://calendly.com/ava"}

InitMeet ==
    /\ supabase = TRUE
    /\ chatbots = {c \in ExistingChatbots : c.user_id = "u1"}
    /\ visitors = {}
    /\ messages = <<>>
    /\ \E link \in CalendlyLinks, rules \in MeetRules :
          profiles = [u \in Users |-> [name |-> "Ava", calendly_link |-> link, meeting_rules |-> rules]]
    /\ collection = <<>>
    /\ llm = [ok |-> TRUE, text |-> <<"I specialize in distributed caching.">>, error |-> None]
    /\ vecfail = {}
    /\ last = [op |-> "init"]

\* a request body validated as models.ChatRequest
MeetRequest(message) ==
    [message |-> message, visitor_id |-> "v1", visitor_name |-> None, chatbot_id |-> ChatbotIdOf("u1")]

\* one call of main.chat
MainChatCall(req) ==
    LET o == MainChat(profiles, req)
    IN /\ last.op = "init"
       /\ DOMAIN req = ChatRequestFields
       /\ last' = [op |-> "main_chat", message |-> req.message, status |-> o.status,
                   response |-> o.response, retrievals |-> o.retrievals, genCalls |-> o.genCalls]
       /\ UNCHANGED <<supabase, chatbots, visitors, messages, profiles, collection, llm, vecfail>>

\* one call of is_valid_meeting_request
ValidMeetingRequest(message, meeting_rules) ==
    /\ last.op = "init"
    /\ last' = [op |-> "is_valid_meeting_request", message |-> message, meeting_rules |-> meeting_rules,
                valid |-> is_valid_meeting_request(message, meeting_rules)]
    /\ UNCHANGED <<supabase, chatbots, visitors, messages, profiles, collection, llm, vecfail>>

NextMeet ==
    \/ \E message \in MeetMessages : MainChatCall(MeetRequest(message))
    \/ \E message \in MeetMessages : ValidMeetingRequest(message, profiles["u1"].meeting_rules)

SpecMeet == InitMeet /\ [][NextMeet]_vars

(***************************************************************************)
(* Properties of the chat handlers (under Spec)                            *)
(***************************************************************************)
Answered == last.op \in {"chat", "chat_public"} /\ ~IsBlank(last.message)

IssuedWith(text) == \E i \in 1 .. Len(last.issued) : last.issued[i].response = text

StoredWith(text) == \E i \in 1 .. Len(messages) : messages[i].response = text

\* C1: a chat request with a non-blank message, with the row store, the vector
\* store and the LLM all succeeding, returns exactly the LLM's completion
\* text and persists a ChatExchange with that text as its response.
C1_ResponseIsLlmText ==
    (last.op = "chat" /\ ~IsBlank(last.message) /\ last.known /\ last.rowHealthy
       /\ vecfail = {} /\ llm.ok) =>
        /\ last.status = 200
        /\ last.response = llm.text
        /\ StoredWith(llm.text)

\* C4: a chat request whose chatbot_id matches no chatbot ends in a 404-class
\* error and is never answered for the default or another owner's chatbot.
C4_UnknownChatbotIs404 ==
    (last.op = "chat" /\ ~IsBlank(last.message) /\ last.target = UnknownChatbotId) =>
        /\ last.status = 404
        /\ last.owner = None

\* C5: when the LLM raises a rate-limit error the response is the canned
\* high-demand message and the chat request persists a ChatExchange with
\* exactly that text.
C5_RateLimitPersisted ==
    (last.op = "chat" /\ ~IsBlank(last.message) /\ last.known /\ last.rowHealthy
       /\ llm.error = "RateLimitError") =>
        \E name \in {"Ava", DEFAULT_PROFILE.name} :
            /\ last.response = HighDemandText(name)
            /\ StoredWith(HighDemandText(name))

\* C6: on either chat route, every request with a non-blank message that
\* returns a response body has issued, before returning, a ChatExchange write
\* whose response is the returned text (fallback texts included).
C6_ReturnedTextWasWritten ==
    (Answered /\ last.rowHealthy /\ last.status = 200) => IssuedWith(last.response)

C8_VectorOutageStillAnswers ==
    (last.op = "chat" /\ ~IsBlank(last.message) /\ last.known /\ last.rowHealthy
       /\ vecfail = VecSites /\ llm.ok) =>
        /\ last.status = 200
        /\ last.response # StaticFallbackText
        /\ last.llmCalls >= 1
        /\ last.response = llm.text

(***************************************************************************)
(* Properties of generate_ai_response (under SpecGen)                      *)
(***************************************************************************)
\* the documents of the bullet lines that follow the first line of a prompt
RECURSIVE LeadingBullets(_)
LeadingBullets(lines) ==
    IF lines = <<>> \/ Head(lines)[1] # "- " THEN <<>>
    ELSE <<Head(lines)[Len(Head(lines))]>> \o LeadingBullets(Tail(lines))

\* the documents listed in a prompt under the section with the given title
RECURSIVE PromptSection(_, _)
PromptSection(lines, title) ==
    IF lines = <<>> THEN <<>>
    ELSE IF Head(lines) = <<title>> THEN LeadingBullets(Tail(lines))
    ELSE PromptSection(Tail(lines), title)

\* the documents of a retrieval result that belong to a section, in
\* retrieval order
RECURSIVE RetrievedFor(_, _, _)
RetrievedFor(search_results, section, i) ==
    IF i > Len(search_results.documents) THEN <<>>
    ELSE (IF search_results.metadatas[i].category = section
             \/ (section = "profile" /\ search_results.metadatas[i].category \notin Categories)
          THEN <<search_results.documents[i]>> ELSE <<>>)
         \o RetrievedFor(search_results, section, i + 1)

SectionTitle(section) ==
    CASE section = "document" -> "Knowledge Base Information:"
      [] section = "project" -> "Project Information:"
      [] section = "conversation" -> "Relevant Previous Conversations:"
      [] section = "profile" -> "Additional Profile Information:"

\* C10: the prompt holds at most 5 document, 3 project, 3 profile and 2
\* conversation entries, and the entries of a section are the first ones of
\* that category in retrieval order.
C10_SectionCaps ==
    last.op = "generate" =>
        /\ Len(PromptSection(last.prompt, SectionTitle("document"))) <= 5
        /\ Len(PromptSection(last.prompt, SectionTitle("project"))) <= 3
        /\ Len(PromptSection(last.prompt, SectionTitle("profile"))) <= 3
        /\ Len(PromptSection(last.prompt, SectionTitle("conversation"))) <= 2
        /\ \A section \in Categories :
              LET shown == PromptSection(last.prompt, SectionTitle(section))
                  found == RetrievedFor(last.search_results, section, 1)
              IN /\ Len(shown) <= Len(found)
                 /\ shown = SubSeq(found, 1, Len(shown))
                 /\ Len(shown) < Len(found) =>
                       Len(shown) = (CASE section = "document" -> 5
                                       [] section = "conversation" -> 2
                                       [] OTHER -> 3)

\* six documents were retrieved: the prompt lists the first five
C10_Witness ==
    /\ last.op = "generate"
    /\ Len(RetrievedFor(last.search_results, "document", 1)) = 6
    /\ PromptSection(last.prompt, SectionTitle("document")) = <<"r1", "r2", "r3", "r4", "r5">>

(***************************************************************************)
(* Properties of the meeting short-circuit (under SpecMeet)                *)
(***************************************************************************)
\* C9: when the owner's profile has a meeting link and the message holds a
\* meeting-intent keyword, the chat handler returns a canned response without
\* retrieval or generation: the link response when an allowed purpose of
\* meeting_rules occurs in the message, the policy refusal otherwise.
C9_MeetingShortCircuit ==
    (last.op = "main_chat" /\ profiles["u1"].calendly_link # None
       /\ HasMeetingKeyword(Lower(last.message))) =>
        /\ last.status = 200
        /\ last.retrievals = 0
        /\ last.genCalls = 0
        /\ last.response =
              IF is_valid_meeting_request(last.message, profiles["u1"].meeting_rules)
              THEN MeetingLinkText(profiles["u1"].calendly_link)
              ELSE MeetingPolicyText

(***************************************************************************)
(* Properties of the conversation history (under SpecHistory)              *)
(***************************************************************************)
\* the multiset of row ids of a history
IdBag(h) == [id \in {h[i].id : i \in 1 .. Len(h)} |-> Cardinality({i \in 1 .. Len(h) : h[i].id = id})]

\* C11: the conversation history a chat request passes to prompt assembly is
\* ordered oldest first by timestamp and holds the exchanges the row store
\* returned, whatever order (newest first) the store returned them in.
C11_HistoryOldestFirst ==
    last.op = "chat" =>
        /\ \A i, j \in 1 .. Len(last.history) :
              i < j => last.history[i].created_at <= last.history[j].created_at
        /\ Len(last.history) = Len(last.fetched)
        /\ IdBag(last.history) = IdBag(last.fetched)

\* the store returned three exchanges newest first; they are passed oldest first
C11_Witness ==
    /\ last.op = "chat"
    /\ Len(last.fetched) = 3
    /\ last.fetched[1].created_at > last.fetched[2].created_at
    /\ last.fetched[2].created_at > last.fetched[3].created_at
    /\ last.history[1].created_at < last.history[2].created_at
    /\ last.history[2].created_at < last.history[3].created_at

(***************************************************************************)
(* Properties of indexing (under SpecIndex)                                *)
(***************************************************************************)
UnitIds(coll) == {coll[i].id : i \in 1 .. Len(coll)}

IndexOps == {"add_profile", "add_projects", "add_document"}

\* the call repeats the call before it, which returned True
RepeatedCall == last.op \in IndexOps /\ last.prev = [op |-> last.op, arg |-> last.arg, ret |-> TRUE]

\* C12: indexing the same profile, project list or document twice in a row
\* leaves the vector store with the set of unit ids and the unit count it had
\* after the first call.
C12_ReindexIdempotent ==
    RepeatedCall =>
        /\ UnitIds(collection) = UnitIds(last.before)
        /\ Len(collection) = Len(last.before)
        /\ Cardinality(UnitIds(collection)) = Len(collection)

\* the chunked document d1 indexed twice with a working store
C12_Witness ==
    /\ RepeatedCall
    /\ last.op = "add_document" /\ last.arg = "d1"
    /\ vecfail \subseteq {<<"add", "duplicate">>}
    /\ \E i \in 1 .. Len(collection) : collection[i].id = <<"document_content", "d1", 2, "u1">>
\* the units an indexing call was asked to store
UnitsAsked(op, arg) ==
    CASE op = "add_profile" ->
            ProfileUnits(IndexProfiles[arg], "u1", 1) \o ProjectListUnits(IndexProfiles[arg].project_list, "u1")
      [] op = "add_projects" -> ProjectListUnits(ProjectLists[arg], "u1")
      [] op = "add_document" ->
            add_document_to_vector_db(<<>>, {}, "skip", IndexDocuments[arg], "u1").collection

\* the units of the store an indexing call is to replace: those of its
\* category and owner (for a document, of its document id as well)
InScope(u, op, arg) ==
    /\ u.user_id = "u1"
    /\ CASE op = "add_profile" -> u.category \in {"profile", "project"}
         [] op = "add_projects" -> u.category = "project"
         [] op = "add_document" -> u.category = "document" /\ u.source_id = IndexDocuments[arg].id

\* C13: with a working vector store, after an indexing call the store holds no
\* unit of the call's category and owner that stems from earlier content:
\* every such unit is one the call was asked to store, also when the project
\* list was edited down to the empty list.
C13_NoStaleUnits ==
    (last.op \in IndexOps /\ vecfail \subseteq {<<"add", "duplicate">>}) =>
        \A i \in 1 .. Len(collection) :
            InScope(collection[i], last.op, last.arg) =>
                \E j \in 1 .. Len(UnitsAsked(last.op, last.arg)) :
                    UnitsAsked(last.op, last.arg)[j] = collection[i]
StoredIds(row) == {row.projects[i].id : i \in 1 .. Len(row.projects)}

\* the row-store change the request of last asked for is in the stored row
RowChangeApplied ==
    LET row == profiles["u1"]
    IN CASE last.op \in {"update_profile", "update_profile_handler"} ->
                \A f \in {"name", "location", "bio", "skills"} :
                    TextLen(ProfileUpdates[last.arg][f]) > 0 => row[f] = ProfileUpdates[last.arg][f]
         [] last.op = "create_project" ->
                \E i \in 1 .. Len(row.projects) :
                    row.projects[i] = [ProjectPool[last.arg] EXCEPT !.id = last.target]
         [] last.op = "edit_project" ->
                \E i \in 1 .. Len(row.projects) :
                    row.projects[i] = [ProjectPool[last.arg] EXCEPT !.id = last.target]
         [] last.op = "remove_project" -> last.target \notin StoredIds(row)
         [] OTHER -> TRUE

\* the request of last is one the route can serve: a project that is edited
\* or removed is in the stored list
Servable ==
    /\ last.op # "init"
    /\ last.rowHealthy
    /\ last.op \in {"edit_project", "remove_project"} => last.target \in StoredIds(last.before)

\* C15: with the vector store unreachable the indexing functions return False
\* without raising, and profile update, project create/update/delete and
\* document processing still complete with the row-store change applied.
C15_VectorOutageKeepsRowStore ==
    (Servable /\ vecfail = IndexSites) =>
        (last.status = 200 /\ ~last.indexed /\ RowChangeApplied)
\* C20: a profile update that omits or empties a field never overwrites the
\* stored non-empty value of that field with a default or an emptier value.
C20_UpdateKeepsStoredFields ==
    (last.op \in {"update_profile", "update_profile_handler"} /\ last.rowHealthy /\ last.status = 200) =>
        \A f \in {"name", "location", "bio", "skills", "experience", "interests"} :
            (TextLen(last.before[f]) > 0 /\ TextLen(ProfileUpdates[last.arg][f]) = 0)
                => profiles["u1"][f] = last.before[f]
(***************************************************************************)
(* Blank messages (under Spec)                                             *)
(***************************************************************************)
OnlyWhitespace(message) == \A i \in 1 .. Len(message) : IsSpace(message[i])

\* C16: a chat request whose message is empty or only whitespace is answered
\* with the canned clarification and no error status, without retrieval or
\* generation, and leaves the row store and the vector store unchanged.
C16_BlankMessageIsClarified ==
    [][(last'.op \in {"chat", "chat_public"} /\ OnlyWhitespace(last'.message)) =>
          /\ last'.status = 200
          /\ last'.response = ClarificationText
          /\ last'.retrievals = 0 /\ last'.genCalls = 0 /\ last'.llmCalls = 0
          /\ last'.persistCalls = 0 /\ last'.indexCalls = 0
          /\ UNCHANGED <<chatbots, visitors, messages, profiles, collection>>]_vars

C16_Witness ==
    /\ last.op = "chat_public"
    /\ last.message = <<" ">>
    /\ last.response = ClarificationText
    /\ last.status = 200
(***************************************************************************)
(* Chunking (under SpecChunk)                                              *)
(***************************************************************************)
IsContentUnit(u) == u.subcategory = "content"

\* the content units of the collection, in storage order
ContentUnitsStored == SelectSeq(collection, IsContentUnit)

\* text a followed by run r, as the sequence of its maximal runs
FollowedBy(a, r) ==
    IF TextLen(r) = 0 THEN a
    ELSE IF a # <<>> /\ a[Len(a)].src = r.src /\ a[Len(a)].hi = r.lo
         THEN [a EXCEPT ![Len(a)].hi = r.hi]
         ELSE Append(a, r)

\* chunk 0 followed by every later chunk minus its first overlap characters
RECURSIVE Reassembled(_, _)
Reassembled(units, k) ==
    IF k = 0 THEN <<>>
    ELSE FollowedBy(Reassembled(units, k - 1),
                    IF k = 1 THEN units[1].text
                    ELSE Slice(units[k].text, 100, TextLen(units[k].text)))

\* the chunking contract for the text of last
ChunkedLosslessly ==
    LET units == ContentUnitsStored
    IN IF TextLen(last.text) > 1000
       THEN /\ Len(units) >= 2
            /\ \A k \in 1 .. Len(units) :
                  /\ TextLen(units[k].text) <= 1000
                  /\ units[k].chunked
                  /\ units[k].chunk_index = k - 1
                  /\ units[k].total_chunks = Len(units)
            /\ Reassembled(units, Len(units)) = <<last.text>>
       ELSE /\ Len(units) = 1
            /\ units[1].text = last.text
            /\ ~units[1].chunked

C18_HistoryRendersBothLines ==
    last.op = "render" =>
        LET h == last.chat_history
        IN IF h = <<>> THEN last.rendered = <<<<"No previous conversation">>>>
           ELSE /\ Len(last.rendered) = 2 * Len(h)
                /\ \A i \in 1 .. Len(h) :
                      /\ last.rendered[2 * i - 1] = <<"User: ", h[i].message>>
                      /\ last.rendered[2 * i] = <<"Assistant: ", h[i].response>>
(***************************************************************************)
(* Retrieval for an owner without units (under SpecQuery)                  *)
(***************************************************************************)
\* the owner queried for has no unit in the collection
OwnerHasNoUnits ==
    /\ last.user_id # None
    /\ \A i \in 1 .. Len(collection) : collection[i].user_id # last.user_id

\* C19: for an owner that has no indexed units query_vector_db returns the
\* empty result without raising, whatever units of other owners and whatever
\* conversation units the collection holds and whatever visitor_id is passed.
C19_UnknownOwnerGetsNothing ==
    (last.op = "query" /\ OwnerHasNoUnits) => (~last.raised /\ last.ret = EmptyResults)
(***************************************************************************)
(* Segregation of conversation units (under SpecQuery)                     *)
(***************************************************************************)
\* C21: a retrieval issued for owner o never returns a conversation unit whose
\* user_id metadata is another owner, also when the visitor has chatted with
\* the chatbots of several owners.
C21_ConversationsOfOwnerOnly ==
    (last.op = "query" /\ last.user_id # None) =>
        \A i \in 1 .. Len(last.ret.metadatas) :
            last.ret.metadatas[i].category = "conversation"
                => last.ret.metadatas[i].user_id = last.user_id
\* C25: every conversation entry returned for a request with visitor_id v has
\* visitor_id metadata v, and there are at most 3 of them, also when the result
\* comes from the unscoped fallback query.
C25_ConversationsOfVisitorOnly ==
    (last.op = "query" /\ last.visitor_id # None) =>
        LET Conv == {i \in 1 .. Len(last.ret.metadatas) : last.ret.metadatas[i].category = "conversation"}
        IN /\ \A i \in Conv : last.ret.metadatas[i].visitor_id = last.visitor_id
           /\ Cardinality(Conv) <= 3
(***************************************************************************)
(* Rows written per chat request (under Spec)                              *)
(***************************************************************************)
\* C23: a chat request writes at most one exchange row to the row store, on
\* every path through the handler, the error-recovery path included.
C23_AtMostOneRowPerRequest ==
    [][/\ Len(messages') <= Len(messages) + 1
       /\ last'.op \in {"chat", "chat_public"} => Len(last'.issued) <= 1]_vars

\* the recovery path persisted the exchange
C23_Witness ==
    /\ last.op = "chat"
    /\ last.genRaised >= 1
    /\ last.persistCalls = 1
    /\ Len(messages) = 1
    /\ messages[1].message = last.message
\* C24: every chat request that persists an exchange, the one persisted on
\* the error-recovery path with a fallback response included, submits that
\* exchange to the vector store as a conversation unit before it completes.
C24_PersistedIsIndexed ==
    (/\ last.op \in {"chat", "chat_public"}
     /\ last.issued # <<>>
     /\ \E i \in 1 .. Len(messages) : messages[i] = last.issued[1])
        => last.indexCalls >= 1

(***************************************************************************)
(* Specification SpecConcurrent: chat requests served concurrently by      *)
(* several workers over one healthy row store.  Each request is cut at its *)
(* row-store calls: the history read of chat lines 91-96 and the insert of *)
(* lines 198-206.                                                          *)
(***************************************************************************)
MaxConcurrent == 2

ConcurrentRequests == 1 .. MaxConcurrent

\* the numbers of exchanges of visitor v1 stored before any request starts
StoredCounts == {0, history_limit - 1, history_limit}

ConcurrentChatRequests == [message : {<<"What do you specialize in?">>}, visitor_id : {"v1", "v2"},
                           chatbot_id : {ChatbotIdOf(u) : u \in Users}]

\* the ids of the stored exchanges of a visitor with a chatbot
ExchangesOf(msgs, visitor_id, chatbot_id) ==
    {msgs[i].id : i \in {j \in 1 .. Len(msgs) : /\ msgs[j].visitor_id = VisitorUuid(visitor_id)
                                                  /\ msgs[j].chatbot_id = chatbot_id}}

InitConcurrent ==
    /\ supabase = TRUE
    /\ chatbots = ExistingChatbots
    /\ visitors = {"v1"}
    /\ \E n \in StoredCounts, b \in {c.id : c \in ExistingChatbots} :
          messages = [i \in 1 .. n |-> StoredRow(i, i, IF i = n THEN b ELSE ChatbotIdOf("u1"))]
    /\ profiles = InitialProfiles
    /\ collection = InitialCollection
    /\ llm \in LlmChoices
    /\ vecfail = {}
    /\ last = [op |-> "concurrent",
               pc |-> [r \in ConcurrentRequests |-> "idle"],
               req |-> [r \in ConcurrentRequests |-> CHOOSE q \in ConcurrentChatRequests : TRUE],
               chatbot |-> [r \in ConcurrentRequests |-> NoChatbot],
               before |-> [r \in ConcurrentRequests |-> {}],
               history |-> [r \in ConcurrentRequests |-> <<>>],
               own |-> [r \in ConcurrentRequests |-> <<>>]]

\* the request arrives at a worker: chat, lines 23-43
BeginChat(r, req) ==
    /\ last.pc[r] = "idle"
    /\ last' = [last EXCEPT !.pc[r] = "started", !.req[r] = req,
                            !.before[r] = ExchangesOf(messages, req.visitor_id, req.chatbot_id)]
    /\ UNCHANGED <<supabase, chatbots, visitors, messages, profiles, collection, llm, vecfail>>

\* chat, lines 44-108: the chatbot, the owner's profile and the history
ReadHistory(r, dflt) ==
    /\ last.pc[r] = "started"
    /\ LET req == last.req[r]
           c == get_or_create_chatbot(chatbots, {}, None, req.chatbot_id, dflt)
           p == get_profile_data(profiles, {}, c.ret.user_id)
           db2 == [Db EXCEPT !.chatbots = c.chatbots, !.profiles = p.profiles]
           fetched == get_chat_history(db2, {}, history_limit, req.visitor_id, c.ret.id)
       IN /\ last' = [last EXCEPT !.pc[r] = "read", !.chatbot[r] = c.ret,
                                  !.history[r] = sorted_chat_history(fetched)]
          /\ chatbots' = c.chatbots
          /\ profiles' = p.profiles
    /\ UNCHANGED <<supabase, visitors, messages, collection, llm, vecfail>>

\* chat, lines 112-218: the generation call raises and the recovery path
\* inserts the exchange
PersistExchange(r, dflt, ts) ==
    /\ last.pc[r] = "read"
    /\ LET o == ChatRecovery(Db, {}, last.req[r], last.chatbot[r].user_id, last.chatbot[r], dflt, ts, 1, 1)
       IN /\ last' = [last EXCEPT !.pc[r] = "done", !.own[r] = o.issued]
          /\ chatbots' = o.db.chatbots
          /\ visitors' = o.db.visitors
          /\ messages' = o.db.messages
          /\ profiles' = o.db.profiles
    /\ UNCHANGED <<supabase, collection, llm, vecfail>>

NextConcurrent ==
    \E r \in ConcurrentRequests :
        \/ \E req \in ConcurrentChatRequests : BeginChat(r, req)
        \/ \E dflt \in DefaultChoices(chatbots) : ReadHistory(r, dflt)
        \/ \E dflt \in DefaultChoices(chatbots), ts \in CreatedAtChoices(messages) : PersistExchange(r, dflt, ts)

SpecConcurrent == InitConcurrent /\ [][NextConcurrent]_vars

(***************************************************************************)
(* History under concurrent requests (under SpecConcurrent)                *)
(***************************************************************************)
\* the ids a history read has to hold: every exchange persisted before the
\* request started, the history_limit most recent when there are more
RequiredHistory(ids) ==
    IF Cardinality(ids) > history_limit
    THEN {i \in ids : Cardinality({j \in ids : j > i}) < history_limit}
    ELSE ids

HistoryIds(r) == {last.history[r][k].id : k \in 1 .. Len(last.history[r])}

\* C22: under any interleaving of concurrent chat requests over a healthy row
\* store, the history of a request holds every exchange of its visitor and
\* chatbot that was persisted before the request started (the 10 most recent
\* when there are more) and never the request's own exchange
C22_HistoryReflectsCompleted ==
    \A r \in ConcurrentRequests :
        last.pc[r] \in {"read", "done"} =>
            /\ RequiredHistory(last.before[r]) \subseteq HistoryIds(r)
            /\ last.own[r] # <<>> => last.own[r][1].id \notin HistoryIds(r)

(***************************************************************************)
(* Specification SpecChatbot: concurrent callers of                        *)
(* get_or_create_chatbot(user_id=u), each cut at its two row-store calls:  *)
(* the select of line 392 and the insert of line 409                       *)
(***************************************************************************)
\* the id the row store gives the row inserted by caller r
NewChatbotId(r) == "cb_new" \o ToString(r)

\* the chatbots table when the callers arrive
InitialChatbotTables == {{}, {c \in ExistingChatbots : c.user_id = "u2"}}

InitChatbot ==
    /\ supabase = TRUE
    /\ chatbots \in InitialChatbotTables
    /\ visitors = {}
    /\ messages = <<>>
    /\ profiles = InitialProfiles
    /\ collection = InitialCollection
    /\ llm \in LlmChoices
    /\ vecfail = {}
    \* unique: whether the table rejects a second chatbot row of one user_id;
    \* the schema is not part of the sources
    /\ \E unique \in BOOLEAN :
          last = [op |-> "get_or_create_chatbot", unique |-> unique,
                  had |-> {c.user_id : c \in chatbots},
                  pc |-> [r \in ConcurrentRequests |-> "idle"],
                  user_id |-> [r \in ConcurrentRequests |-> None],
                  ret |-> [r \in ConcurrentRequests |-> NoChatbot]]

\* chat_with_public_chatbot, lines 412-415: get_or_create_chatbot(user_id=user_id)
CallGetOrCreate(r, user_id) ==
    /\ last.pc[r] = "idle"
    /\ last' = [last EXCEPT !.pc[r] = "select", !.user_id[r] = user_id]
    /\ UNCHANGED <<supabase, chatbots, visitors, messages, profiles, collection, llm, vecfail>>

\* get_or_create_chatbot, lines 390-396: select by user_id, response.data[0]
\* of an unordered select
SelectChatbot(r) ==
    /\ last.pc[r] = "select"
    /\ LET rows == {c \in chatbots : c.user_id = last.user_id[r]}
       IN IF rows # {}
          THEN \E c \in rows : last' = [last EXCEPT !.pc[r] = "done", !.ret[r] = c]
          ELSE last' = [last EXCEPT !.pc[r] = "insert"]
    /\ UNCHANGED <<supabase, chatbots, visitors, messages, profiles, collection, llm, vecfail>>

\* get_or_create_chatbot, lines 397-419: insert of the default chatbot; a
\* rejected insert raises and the except clause returns None
InsertChatbot(r) ==
    /\ last.pc[r] = "insert"
    /\ LET row == [id |-> NewChatbotId(r), user_id |-> last.user_id[r], is_public |-> TRUE]
       IN IF last.unique /\ \E c \in chatbots : c.user_id = last.user_id[r]
          THEN /\ last' = [last EXCEPT !.pc[r] = "done", !.ret[r] = NoChatbot]
               /\ UNCHANGED chatbots
          ELSE /\ last' = [last EXCEPT !.pc[r] = "done", !.ret[r] = row]
               /\ chatbots' = chatbots \cup {row}
    /\ UNCHANGED <<supabase, visitors, messages, profiles, collection, llm, vecfail>>

NextChatbot ==
    \E r \in ConcurrentRequests :
        \/ \E user_id \in Users : CallGetOrCreate(r, user_id)
        \/ SelectChatbot(r)
        \/ InsertChatbot(r)

SpecChatbot == InitChatbot /\ [][NextChatbot]_vars

(***************************************************************************)
(* Chatbot creation under concurrent callers (under SpecChatbot)           *)
(***************************************************************************)
\* C26: under any interleaving of concurrent get_or_create_chatbot(user_id=u)
\* calls for an owner u who had no chatbot, at most one chatbot row is created
\* and every caller receives that same chatbot
C26_OneChatbotPerOwner ==
    \A u \in Users \ last.had :
        /\ Cardinality({c \in chatbots : c.user_id = u}) <= 1
        /\ \A r \in ConcurrentRequests :
              (last.pc[r] = "done" /\ last.user_id[r] = u) =>
                  /\ last.ret[r] # NoChatbot
                  /\ last.ret[r] \in chatbots
                  /\ \A q \in ConcurrentRequests :
                        (last.pc[q] = "done" /\ last.user_id[q] = u) => last.ret[q] = last.ret[r]

(***************************************************************************)
(* Chunk coverage (under SpecChunk)                                        *)
(***************************************************************************)
\* the smallest n with chunk_size + (chunk_size - overlap) * (n - 1) >= len
SmallestCover(len) ==
    CHOOSE n \in 1 .. len :
        /\ chunk_size + (chunk_size - overlap) * (n - 1) >= len
        /\ \A m \in 1 .. n - 1 : chunk_size + (chunk_size - overlap) * (m - 1) < len

\* C28: for every text longer than 1000 characters, every chunk after the
\* first holds at least one character that the preceding chunk does not hold,
\* and the number of chunks is the smallest n with 1000 + 900 * (n - 1) >= the
\* length of the text
C28_EveryChunkAddsText ==
    (last.op \in {"add_projects", "add_document"} /\ TextLen(last.text) > chunk_size) =>
        LET units == ContentUnitsStored
        IN /\ \A k \in 2 .. Len(units) : units[k].text.hi > units[k - 1].text.hi
           /\ Len(units) = SmallestCover(TextLen(last.text))

(***************************************************************************)
(* Re-keying of a document: POST /update-vector-db                         *)
(***************************************************************************)
\* int(time.time()) when process_document indexed the upload
upload_time == 1730880000

\* temp_id = f"temp_{userId}_{int(time.time())}" of an upload of owner u1, and
\* the id of the row the document was saved under
TempDocumentId == "temp_u1_1730880000"

PermanentDocumentId == "d7"

\* the last "_"-separated part of a document id: str.isdigit() of it, and its
\* digits as a number
LastPartOf(document_id) ==
    IF document_id = TempDocumentId THEN [isdigit |-> TRUE, digits |-> upload_time]
    ELSE [isdigit |-> FALSE, digits |-> 0]

\* update_vector_db, lines 244-258: the new id of one unit.  A unit id
\* <<prefix, document_id, user_id>> stands for prefix_documentid_userid and
\* <<prefix, document_id, i, user_id>> for prefix_documentid_i_userid; for the
\* former old_id.split("_")[-2] is the last part of the document id
NewUnitId(old_id, data) ==
    IF old_id[1] = "document_title" THEN <<"document_title", data.permanent_id, data.user_id>>
    ELSE IF old_id[1] = "document_description"
    THEN <<"document_description", data.permanent_id, data.user_id>>
    ELSE IF old_id[1] = "document_content"
    THEN IF Len(old_id) = 4
         THEN <<"document_content", data.permanent_id, old_id[3], data.user_id>>
         ELSE IF LastPartOf(old_id[2]).isdigit
         THEN <<"document_content", data.permanent_id, LastPartOf(old_id[2]).digits, data.user_id>>
         ELSE <<"document_content", data.permanent_id, data.user_id>>
    ELSE old_id

\* update_vector_db, lines 260-267: a new id that was already given out gets
\* the first free counter appended
RECURSIVE UpdatedIds(_, _)
UpdatedIds(old_ids, data) ==
    IF old_ids = <<>> THEN <<>>
    ELSE LET updated_ids == UpdatedIds(SubSeq(old_ids, 1, Len(old_ids) - 1), data)
             base_id == NewUnitId(old_ids[Len(old_ids)], data)
             Taken(id) == \E k \in 1 .. Len(updated_ids) : updated_ids[k] = id
             counter == CHOOSE c \in 1 .. Len(old_ids) :
                            /\ ~Taken(Append(base_id, c))
                            /\ \A b \in 1 .. c - 1 : Taken(Append(base_id, b))
         IN Append(updated_ids, IF Taken(base_id) THEN Append(base_id, counter) ELSE base_id)

\* update_vector_db(data, current_user): [status, updated, collection]
update_vector_db(coll, vf, dup, data, current_user) ==
    IF current_user # data.user_id THEN [status |-> 403, updated |-> 0, collection |-> coll]
    ELSE IF <<"collection", "">> \in vf \/ <<"get", "document">> \in vf
    THEN [status |-> 500, updated |-> 0, collection |-> coll]
    ELSE LET Hit(u) == u.source_id = data.temp_id /\ u.user_id = data.user_id
             Other(u) == ~Hit(u)
             found == SelectSeq(coll, Hit)
             document_ids == [k \in 1 .. Len(found) |-> found[k].id]
             updated_ids == UpdatedIds(document_ids, data)
             units == [k \in 1 .. Len(found) |->
                          [found[k] EXCEPT !.id = updated_ids[k], !.source_id = data.permanent_id]]
         IN IF found = <<>> THEN [status |-> 200, updated |-> 0, collection |-> coll]
            ELSE IF <<"delete", "">> \in vf THEN [status |-> 500, updated |-> 0, collection |-> coll]
            ELSE LET added == CollectionAdd(SelectSeq(coll, Other), vf, dup, units)
                 IN IF added.raised
                    THEN [status |-> 500, updated |-> 0, collection |-> added.collection]
                    ELSE [status |-> 200, updated |-> Len(units), collection |-> added.collection]

(***************************************************************************)
(* Specification SpecRekey: an uploaded document, indexed under its        *)
(* temporary id, is re-keyed to its permanent id and then indexed again    *)
(***************************************************************************)
\* the uploads process_document indexed: with and without a description, of
\* one unit and of several chunks
UploadedDocuments ==
    {Document(TempDocumentId, Run("d7.title", 0, 8), description, Run("d7.text", 0, n)) :
        description \in {NoText, Run("d7.description", 0, 30)}, n \in {300, chunk_size, 1900}}

\* units the collection holds besides the upload: none, a document of
\* another owner, or a unit already stored under the permanent id
OtherUnits ==
    {<<>>,
     add_document_to_vector_db(<<>>, {}, "skip",
                               Document("d9", Run("d9.title", 0, 5), NoText, Run("d9.text", 0, 200)), "u2").collection,
     <<IndexedUnit(<<"document_title", PermanentDocumentId, "u1">>, "document", "title", "u1",
                   Run("d7.title.old", 0, 6), PermanentDocumentId)>>}

RekeyFailChoices ==
    LET masks == {{}, {<<"collection", "">>}, {<<"get", "document">>}, {<<"delete", "">>}, {<<"add", "">>}}
    IN masks \cup {m \cup {<<"add", "duplicate">>} : m \in masks}

UpdateVectorDBRequests == [temp_id : {TempDocumentId, "temp_u1_0"}, permanent_id : {PermanentDocumentId},
                           user_id : Users]

InitRekey ==
    /\ supabase = TRUE
    /\ chatbots = {}
    /\ visitors = {}
    /\ messages = <<>>
    /\ profiles = [u \in Users |-> NoProfileRow]
    /\ llm = [ok |-> TRUE, text |-> <<>>, error |-> None]
    /\ vecfail = {}
    /\ \E doc \in UploadedDocuments, other \in OtherUnits :
          /\ collection = add_document_to_vector_db(other, {}, "skip", doc, "u1").collection
          /\ last = [op |-> "init", document |-> doc, status |-> 0, before |-> collection]

\* POST /update-vector-db
UpdateVectorDb(data, current_user, vf) ==
    /\ last.op = "init"
    /\ LET r == update_vector_db(collection, vf, DupMode(vf), data, current_user)
       IN /\ collection' = r.collection
          /\ last' = [op |-> "update_vector_db", document |-> last.document, status |-> r.status,
                      before |-> collection, data |-> data, updated |-> r.updated]
    /\ UNCHANGED <<supabase, chatbots, visitors, messages, profiles, llm, vecfail>>

\* reindex_documents over a collection that was not cleared:
\* add_document_to_vector_db of the saved document under its permanent id
ReindexDocument(vf) ==
    /\ last.op = "update_vector_db"
    /\ last.updated > 0
    /\ LET r == add_document_to_vector_db(collection, vf, DupMode(vf),
                                          [last.document EXCEPT !.id = last.data.permanent_id],
                                          last.data.user_id)
       IN /\ collection' = r.collection
          /\ last' = [last EXCEPT !.op = "reindex", !.before = collection]
    /\ UNCHANGED <<supabase, chatbots, visitors, messages, profiles, llm, vecfail>>

NextRekey ==
    \/ \E data \in UpdateVectorDBRequests, current_user \in Users, vf \in RekeyFailChoices :
           UpdateVectorDb(data, current_user, vf)
    \/ \E vf \in {{}, {<<"add", "duplicate">>}} : ReindexDocument(vf)

SpecRekey == InitRekey /\ [][NextRekey]_vars

(***************************************************************************)
(* Ids after re-keying (under SpecRekey)                                   *)
(***************************************************************************)
\* the ids of the units of a document of an owner
UnitIdsOf(coll, document_id, user_id) ==
    LET Hit(u) == u.source_id = document_id /\ u.user_id = user_id
        found == SelectSeq(coll, Hit)
    IN {found[k].id : k \in 1 .. Len(found)}

\* the number of units of the collection that hold the given text
CopiesOf(coll, text) ==
    Cardinality({k \in 1 .. Len(coll) : coll[k].text = text})

\* C29: after update_vector_db has re-keyed a document, every unit of it has
\* the id add_document_to_vector_db gives that unit for the permanent id, and
\* indexing the document again under the permanent id adds no second copy of
\* a unit
C29_RekeyedIdsAsIndexed ==
    /\ (last.op = "update_vector_db" /\ last.updated > 0) =>
           UnitIdsOf(collection, last.data.permanent_id, last.data.user_id)
               = UnitIdsOf(add_document_to_vector_db(<<>>, {}, "skip",
                                                     [last.document EXCEPT !.id = last.data.permanent_id],
                                                     last.data.user_id).collection,
                           last.data.permanent_id, last.data.user_id)
    /\ last.op = "reindex" =>
           \A k \in 1 .. Len(collection) : CopiesOf(collection, collection[k].text) = 1

\* C30: update_vector_db is all-or-nothing on the vector store: when it ends
\* in an error, the collection holds what it held before the request, every
\* unit of the document under its old id
C30_RekeyAllOrNothing ==
    (last.op = "update_vector_db" /\ last.status # 200) => collection = last.before

(***************************************************************************)
(* Specification SpecMemory: profile reads and updates of two owners over  *)
(* the profiles table and the module-level in_memory_profile, which is     *)
(* held in last.memory.  A profile is its name and its bio.                *)
(***************************************************************************)
Profile(name, bio) == [name |-> name, bio |-> bio]

\* no row of the owner in the profiles table
AbsentProfile == Profile(Unset, Unset)

\* the profiles calls that can raise while a request is served
ProfileCalls == {"select", "insert", "update"}

ProfileCallFailChoices == {{}, ProfileCalls} \cup {{c} : c \in ProfileCalls}

\* the bodies of the updates: data.items() without the timestamps
ProfileBodies == {Profile(name, bio) : name \in {Unset, Run("name.Ava", 0, 3)},
                                       bio \in {NoText, Run("bio.v2", 0, 55)}}

\* get_profile_data(user_id), lines 65-187, over the in-memory profile mem:
\* the profile data returned
get_profile_data_from(tbl, mem, rf, user_id) ==
    IF supabase /\ user_id # None
    THEN IF "select" \in rf THEN mem
         ELSE IF tbl[user_id] # AbsentProfile THEN tbl[user_id]
         ELSE IF "insert" \in rf THEN mem
         ELSE Profile(DefaultField.name, DefaultField.bio)
    ELSE mem

\* get_profile_data(user_id), lines 98-135: the table after the call
profiles_after_get(tbl, rf, user_id) ==
    IF supabase /\ user_id # None /\ "select" \notin rf /\ tbl[user_id] = AbsentProfile /\ "insert" \notin rf
    THEN [tbl EXCEPT ![user_id] = Profile(DefaultField.name, DefaultField.bio)]
    ELSE tbl

\* update_profile_data, lines 341-362: the in-memory fallback writes every
\* key of data into in_memory_profile
in_memory_update(mem, data) ==
    Profile(IF data.name = Unset THEN mem.name ELSE data.name, data.bio)

\* update_profile_data(data, user_id), lines 198-366, over the in-memory
\* profile mem: [failed, profiles, memory]
update_profile_data_from(tbl, mem, rf, data, user_id) ==
    LET row == Profile(IF data.name = Unset
                       THEN (IF tbl[user_id] = AbsentProfile THEN NoText ELSE tbl[user_id].name)
                       ELSE data.name,
                       RequiredField(data, "bio"))
        fallback == [failed |-> FALSE, profiles |-> tbl, memory |-> in_memory_update(mem, data)]
    IN IF ~supabase THEN fallback
       ELSE IF "select" \in rf THEN [failed |-> TRUE, profiles |-> tbl, memory |-> mem]
       ELSE IF tbl[user_id] # AbsentProfile
       THEN IF "update" \in rf THEN fallback
            ELSE [failed |-> FALSE, profiles |-> [tbl EXCEPT ![user_id] = row], memory |-> mem]
       ELSE IF "insert" \in rf THEN fallback
            ELSE [failed |-> FALSE, profiles |-> [tbl EXCEPT ![user_id] = row], memory |-> mem]

InitMemory ==
    /\ supabase \in BOOLEAN
    /\ chatbots = {}
    /\ visitors = {}
    /\ messages = <<>>
    /\ profiles \in [Users -> {AbsentProfile, Profile(Run("name.Cy", 0, 2), Run("bio.v1", 0, 40))}]
    /\ collection = <<>>
    /\ llm = [ok |-> TRUE, text |-> <<>>, error |-> None]
    /\ vecfail = {}
    /\ last = [op |-> "init", user_id |-> None,
               memory |-> Profile(DefaultField.name, DefaultField.bio), ret |-> AbsentProfile]

\* update_profile_data(data, user_id) for an owner
UpdateProfileData(user_id, data, rf) ==
    /\ LET r == update_profile_data_from(profiles, last.memory, rf, data, user_id)
       IN /\ profiles' = r.profiles
          /\ last' = [op |-> "update_profile_data", user_id |-> user_id, memory |-> r.memory,
                      ret |-> AbsentProfile]
    /\ UNCHANGED <<supabase, chatbots, visitors, messages, collection, llm, vecfail>>

\* get_profile_data(user_id) for an owner
GetProfileData(user_id, rf) ==
    /\ profiles' = profiles_after_get(profiles, rf, user_id)
    /\ last' = [op |-> "get_profile_data", user_id |-> user_id, memory |-> last.memory,
                ret |-> get_profile_data_from(profiles, last.memory, rf, user_id)]
    /\ UNCHANGED <<supabase, chatbots, visitors, messages, collection, llm, vecfail>>

NextMemory ==
    \E user_id \in Users, rf \in ProfileCallFailChoices :
        \/ \E data \in ProfileBodies : UpdateProfileData(user_id, data, rf)
        \/ GetProfileData(user_id, rf)

SpecMemory == InitMemory /\ [][NextMemory]_vars

(***************************************************************************)
(* Isolation of profile updates (under SpecMemory)                         *)
(***************************************************************************)
\* C27: a profile update for owner A never changes the profile data that
\* get_profile_data returns for another owner B, on any path of
\* update_profile_data, the in-memory fallback included
C27_UpdateLeavesOtherOwners ==
    [][last'.op = "update_profile_data" =>
          \A B \in Users \ {last'.user_id} : \A rf \in ProfileCallFailChoices :
              get_profile_data_from(profiles', last'.memory, rf, B)
                  = get_profile_data_from(profiles, last.memory, rf, B)]_vars

====
